-------------------------- MODULE SimulatorProofs --------------------------
(***************************************************************************)
(* Proofs about the four parts of the simulator, each for every value of   *)
(* its constants: the checkpoints, the remote bitbang server, the commit   *)
(* log and the perfect memory with its loader and its host.                *)
(***************************************************************************)
EXTENDS Checkpoint, RemoteBitbang, CommitLog, SimMemory, FiniteSetTheorems, TLAPS

\* Checkpoints of the simulation.

Model == [clk : {0, 1}, rstn : {0, 1}, cycles : Nat, file1 : BOOLEAN,
          tohost : Programs \union {NoProgram}]

\* The file the next save opens, and the one it leaves alone.
Next1(m) == IF m.file1 THEN 1 ELSE 2
Kept(m) == IF m.file1 THEN 2 ELSE 1

Completed(f) == file[f].state = "complete"

\* One program in a map of words, with all of its image.
OneProgram(p, words) == (\A w \in words : w[1] = p) /\ Image(p) \subseteq words

CheckpointTypeOK ==
    /\ proc \in {"down", "running", "saving"}
    /\ time \in Nat /\ model \in Model /\ wrote \in Nat
    /\ restored \in BOOLEAN
    /\ DOMAIN file = Files
    /\ proc = "saving" => writing = Next1(model)

(* Past the reset.  A cycle is counted only when time has left the first     *)
(* five ticks, a save needs a cycle count, so a file is written after reset   *)
(* and what is restored from it is not reset again.                          *)
PastReset ==
    /\ model.cycles # 0 => time >= 5
    /\ proc = "saving" => time >= 5 /\ model.rstn = 1 /\ model.cycles >= 1
    /\ proc # "down" /\ restored => time >= 5 /\ model.rstn = 1

\* What a complete file holds is what a process may be resumed from.
FilesSound == \A f \in Files : Completed(f) =>
    /\ file[f].time \in Nat /\ file[f].time >= 5
    /\ file[f].model \in Model /\ file[f].model.rstn = 1
    /\ file[f].symbols = file[f].model.tohost
    /\ OneProgram(file[f].symbols, file[f].contents)

\* The two files take turns: once a process has completed a save, the file that is
\* not its next one is complete.
TakeTurns ==
    /\ proc # "down" /\ wrote > 0 => Completed(Kept(model))
    /\ CheckpointSurvives

IInv == CheckpointTypeOK /\ PastReset /\ FilesSound /\ SameProgram /\ TakeTurns

\* Before the first process nothing is saved.
LEMMA InitInv == InitCheckpoint => IInv
<1> SUFFICES ASSUME InitCheckpoint PROVE IInv
    OBVIOUS
<1> USE DEF InitCheckpoint
<1>1. CheckpointTypeOK
    BY DEF CheckpointTypeOK, Model
<1>2. PastReset
    BY DEF PastReset
<1>3. FilesSound
    BY DEF FilesSound, Completed, Absent
<1>4. SameProgram /\ TakeTurns
    BY DEF SameProgram, TakeTurns, CheckpointSurvives
<1> QED BY <1>1, <1>2, <1>3, <1>4 DEF IInv

\* A process starts afresh or from a complete file, which is sound.
LEMMA MainInv ==
    ASSUME IInv, NEW p \in Programs, NEW f \in {0} \union Complete, main(p, f)
    PROVE  IInv'
<1> USE DEF IInv
<1>1. UNCHANGED <<file, writing>> /\ proc' = "running" /\ wrote' = 0 /\ restored' \in BOOLEAN
    BY DEF main
<1>2. FilesSound'
    BY <1>1 DEF FilesSound, Completed
<1>3. TakeTurns'
    BY <1>1 DEF TakeTurns, CheckpointSurvives
<1>4. CASE f = 0
  <2>1. /\ time' = 0 /\ contents' = Image(p) /\ symbols' = p
        /\ model' = [clk |-> 0, rstn |-> 0, cycles |-> 0, file1 |-> TRUE, tohost |-> p]
        /\ restored' = FALSE /\ fromhostAddr' = NoProgram
      BY <1>4 DEF main
  <2>2. CheckpointTypeOK'
      BY <1>1, <2>1 DEF CheckpointTypeOK, Model
  <2>3. PastReset'
      BY <1>1, <2>1 DEF PastReset
  <2>4. SameProgram'
      BY <1>1, <2>1 DEF SameProgram, Image
  <2> QED BY <1>2, <1>3, <2>2, <2>3, <2>4
<1>5. CASE f # 0
  <2>1. /\ time' = file[f].time /\ model' = file[f].model
        /\ contents' = file[f].contents /\ symbols' = file[f].symbols
        /\ fromhostAddr' = NoProgram /\ Completed(f) /\ f \in Files
      BY <1>5 DEF main, restore_model, Cleared, Completed, Complete
  <2>2. CheckpointTypeOK'
      BY <1>1, <2>1 DEF CheckpointTypeOK, FilesSound
  <2>3. PastReset'
      BY <1>1, <2>1 DEF PastReset, FilesSound
  <2>4. SameProgram'
      BY <1>1, <2>1 DEF SameProgram, FilesSound, OneProgram
  <2> QED BY <1>2, <1>3, <2>2, <2>3, <2>4
<1> QED BY <1>4, <1>5

\* One turn of the loop.
LEMMA TurnInv == ASSUME IInv, Turn PROVE IInv'
<1> DEFINE t == time + 1
           rising == model.clk = 0
           due == rising /\ Saves(model) /\ saves < MaxSaves
           f == Next1(model)
<1> USE DEF IInv
<1>1. /\ proc = "running" /\ time' = t
      /\ model' = [model EXCEPT !.clk = 1 - @, !.rstn = IF Reset(t) THEN 0 ELSE 1,
                     !.cycles = IF ~rising THEN @ ELSE IF Reset(t) THEN 0 ELSE @ + 1]
      /\ UNCHANGED <<symbols, fromhostAddr, restored, wrote>>
    BY DEF Turn
<1>2. /\ model \in Model /\ model.cycles \in Nat /\ model.file1 \in BOOLEAN /\ time \in Nat
      /\ model.clk \in {0, 1}
    BY DEF CheckpointTypeOK, Model
<1>3. /\ model' \in Model /\ model'.file1 = model.file1 /\ model'.tohost = model.tohost
      /\ model'.rstn = (IF Reset(t) THEN 0 ELSE 1)
      /\ model'.cycles = IF ~rising THEN model.cycles
                         ELSE IF Reset(t) THEN 0 ELSE model.cycles + 1
  <2> DEFINE a == 1 - model.clk
             b == IF Reset(t) THEN 0 ELSE 1
             c == IF ~rising THEN model.cycles ELSE IF Reset(t) THEN 0 ELSE model.cycles + 1
  <2>1. a \in {0, 1} /\ b \in {0, 1} /\ c \in Nat
      BY <1>2
  <2>2. model' = [model EXCEPT !.clk = a, !.rstn = b, !.cycles = c]
      BY <1>1
  <2> HIDE DEF a, b, c
  <2>3. /\ model' \in Model /\ model'.file1 = model.file1 /\ model'.tohost = model.tohost
        /\ model'.rstn = b /\ model'.cycles = c
      BY <1>2, <2>1, <2>2 DEF Model
  <2> QED BY <2>3 DEF b, c
<1>4. Reset(t) <=> t < 5
    BY <1>2 DEF Reset
<1>5. CASE due
  <2>1. /\ proc' = "saving" /\ writing' = f
        /\ file' = [file EXCEPT ![f] = Partial]
      BY <1>5 DEF Turn, Next1
  <2>2. time >= 5 /\ ~Reset(t) /\ model.cycles # 0
      BY <1>2, <1>4, <1>5 DEF Saves, PastReset
  <2>3. CheckpointTypeOK'
      BY <1>1, <1>2, <1>3, <2>1 DEF CheckpointTypeOK, Next1
  <2>4. PastReset'
      BY <1>1, <1>2, <1>3, <1>5, <2>1, <2>2 DEF PastReset
  <2>5. \A g \in Files : file'[g] = IF g = f THEN Partial ELSE file[g]
      BY <2>1 DEF CheckpointTypeOK
  <2>6. FilesSound'
      BY <2>5 DEF FilesSound, Completed, Partial
  <2>7. TakeTurns'
    <3>1. wrote > 0 => Completed(Kept(model))
        BY <1>1 DEF TakeTurns
    <3>2. Kept(model) \in Files /\ Kept(model) # f /\ Kept(model)' = Kept(model)
        BY <1>2, <1>3 DEF Kept, Next1, Files
    <3>3. wrote' > 0 => Completed(Kept(model))'
        BY <1>1, <2>5, <3>1, <3>2 DEF Completed
    <3>4. CheckpointSurvives'
        BY <3>2, <3>3 DEF CheckpointSurvives, Complete, Completed
    <3> QED BY <3>3, <3>4 DEF TakeTurns
  <2>8. SameProgram'
      BY <1>1, <1>3 DEF SameProgram, Turn, Image
  <2> QED BY <2>3, <2>4, <2>6, <2>7, <2>8
<1>6. CASE ~due
  <2>1. UNCHANGED <<proc, writing, file>>
      BY <1>6 DEF Turn
  <2>2. CheckpointTypeOK'
      BY <1>1, <1>2, <1>3, <2>1 DEF CheckpointTypeOK
  <2>3. PastReset'
      BY <1>1, <1>2, <1>3, <1>4, <2>1 DEF PastReset
  <2>4. FilesSound'
      BY <2>1 DEF FilesSound, Completed
  <2>5. TakeTurns'
      BY <1>1, <1>3, <2>1 DEF TakeTurns, CheckpointSurvives, Complete, Completed, Kept
  <2>6. SameProgram'
      BY <1>1, <1>3 DEF SameProgram, Turn, Image
  <2> QED BY <2>2, <2>3, <2>4, <2>5, <2>6
<1> QED BY <1>5, <1>6

\* save_model completes the file and turns to the other.
LEMMA SaveInv == ASSUME IInv, save_model PROVE IInv'
<1> USE DEF IInv
<1>1. /\ proc = "saving" /\ proc' = "running" /\ writing = Next1(model)
      /\ model' = [model EXCEPT !.file1 = ~@]
      /\ wrote' = wrote + 1
      /\ UNCHANGED <<time, contents, symbols, fromhostAddr, restored>>
    BY DEF save_model, OtherFile, CheckpointTypeOK
<1>2. model \in Model /\ model.cycles \in Nat /\ model.file1 \in BOOLEAN
    BY DEF CheckpointTypeOK, Model
<1>3. PICK c \in SavedCycles :
        file' = [file EXCEPT ![writing] =
                   [state |-> "complete", time |-> time, model |-> [model EXCEPT !.cycles = c],
                    contents |-> contents, symbols |-> symbols]]
    BY DEF save_model
<1>4. c \in Nat
    BY <1>1, <1>2 DEF SavedCycles, PastReset
<1>5. /\ [model EXCEPT !.cycles = c] \in Model
      /\ [model EXCEPT !.cycles = c].rstn = model.rstn
      /\ [model EXCEPT !.cycles = c].tohost = model.tohost
    BY <1>2, <1>4 DEF Model
<1>6. /\ model' \in Model /\ model'.cycles = model.cycles /\ model'.rstn = model.rstn
      /\ model'.tohost = model.tohost /\ model'.file1 = ~model.file1
    BY <1>1, <1>2 DEF Model
<1>7. writing \in Files /\ writing = Kept(model)'
    BY <1>1, <1>2, <1>6 DEF Next1, Kept, Files
<1>8. CheckpointTypeOK'
    BY <1>1, <1>3, <1>6 DEF CheckpointTypeOK
<1>9. PastReset'
    BY <1>1, <1>6 DEF PastReset
<1>10. SameProgram /\ SameProgram'
    BY <1>1, <1>6 DEF SameProgram
<1>11. FilesSound'
  <2> SUFFICES ASSUME NEW g \in Files, Completed(g)'
               PROVE  /\ file'[g].time \in Nat /\ file'[g].time >= 5
                      /\ file'[g].model \in Model /\ file'[g].model.rstn = 1
                      /\ file'[g].symbols = file'[g].model.tohost
                      /\ OneProgram(file'[g].symbols, file'[g].contents)
      BY DEF FilesSound
  <2>1. CASE g = writing
    <3>1. file'[g] = [state |-> "complete", time |-> time, model |-> [model EXCEPT !.cycles = c],
                      contents |-> contents, symbols |-> symbols]
        BY <1>3, <2>1 DEF CheckpointTypeOK
    <3>2. /\ file'[g].time = time /\ file'[g].model = [model EXCEPT !.cycles = c]
          /\ file'[g].contents = contents /\ file'[g].symbols = symbols
        BY <3>1
    <3>3. time \in Nat /\ time >= 5 /\ model.rstn = 1
        BY <1>1 DEF PastReset, CheckpointTypeOK
    <3>4. symbols = model.tohost /\ OneProgram(symbols, contents)
        BY <1>1 DEF SameProgram, OneProgram
    <3> QED BY <1>5, <3>2, <3>3, <3>4
  <2>2. CASE g # writing
      BY <1>3, <2>2 DEF CheckpointTypeOK, FilesSound, Completed
  <2> QED BY <2>1, <2>2
<1>12. TakeTurns'
  <2>1. Completed(Kept(model))'
      BY <1>3, <1>7 DEF Completed, CheckpointTypeOK
  <2> QED BY <1>1, <1>7, <2>1 DEF TakeTurns, CheckpointSurvives, Complete, Completed
<1> QED BY <1>8, <1>9, <1>10, <1>11, <1>12

\* Every step of the simulation keeps the invariant.
LEMMA NextInv == IInv /\ [NextCheckpoint]_checkpointVars => IInv'
<1> SUFFICES ASSUME IInv, [NextCheckpoint]_checkpointVars PROVE IInv'
    OBVIOUS
<1>1. ASSUME NEW p \in Programs, NEW f \in {0} \union Complete, main(p, f) PROVE IInv'
    BY <1>1, MainInv
<1>2. CASE Turn
    BY <1>2, TurnInv
<1>3. CASE save_model
    BY <1>3, SaveInv
<1>4. CASE find_fromhost
    BY <1>4 DEF find_fromhost, IInv, CheckpointTypeOK, PastReset, FilesSound, Completed,
                SameProgram, TakeTurns, CheckpointSurvives, Complete
<1>5. CASE Crash
  <2> USE DEF IInv
  <2>1. /\ proc # "down" /\ proc' = "down"
        /\ UNCHANGED <<time, model, file, restored, wrote>>
      BY <1>5 DEF Crash
  <2>2. CheckpointTypeOK' /\ PastReset' /\ FilesSound' /\ SameProgram'
      BY <2>1 DEF CheckpointTypeOK, PastReset, FilesSound, Completed, SameProgram
  <2>3. TakeTurns'
      BY <2>1 DEF TakeTurns, CheckpointSurvives, Complete
  <2> QED BY <2>2, <2>3
<1>6. CASE UNCHANGED checkpointVars
    BY <1>6 DEF checkpointVars, IInv, CheckpointTypeOK, PastReset, FilesSound, Completed,
                SameProgram, TakeTurns, CheckpointSurvives, Complete
<1> QED BY <1>1, <1>2, <1>3, <1>4, <1>5, <1>6 DEF NextCheckpoint

\* A simulation resumed from a file is the one that was saved: one program in
\* memory, in the symbols and in the model, no second reset, and a complete file
\* whenever a process is killed that has completed a save.
THEOREM ResumeIsExact == CheckpointSpec => []ResumeExact
<1>1. IInv => ResumeExact
    BY DEF IInv, ResumeExact, TakeTurns, PastReset, NotResetAgain
<1> QED BY <1>1, InitInv, NextInv, PTL DEF CheckpointSpec

-----------------------------------------------------------------------------
\* The remote bitbang server.

\* The reads and the pins of a sequence a of commands, as RepliesExact has them.
ReadsOf(a, n) == {m \in 1 .. n : a[m] = "R"}
SetByOf(a, first, n, p) ==
    \/ p = first /\ \A m \in 1 .. n - 1 : a[m] \notin PinCommands
    \/ \E m \in 1 .. n - 1 :
          /\ a[m] \in PinCommands /\ p = Pins(a[m])
          /\ \A k \in m + 1 .. n - 1 : a[k] \notin PinCommands

(* The server and its history.  Between two ticks the pins are those of the   *)
(* commands executed, inside one the TAP was looked at under these pins, and  *)
(* the histories are never begun anew under a client that is served.          *)
Lockstep ==
    /\ pc # "dead" => Len(seen) = Len(asked) + (IF pc = "read" THEN 1 ELSE 0)
    /\ pc = "read" => seen[Len(seen)] = [pins |-> pins, tdo |-> tdo]
    /\ pc # "read" /\ seen # <<>> => pc = "dead" \/ SetBy(Len(asked) + 1, pins)
    /\ client_fd \/ pc = "read" => peer # "away"

BitbangIInv == BitbangTypeOK /\ RepliesExact /\ Lockstep

View == [pins : [1 .. 3 -> Level], tdo : Level]

\* The pins of a digit are levels.
LEMMA PinsTyped == ASSUME NEW c \in PinCommands PROVE Pins(c) \in [1 .. 3 -> Level]
<1>1. \A x, y, z \in Level : <<x, y, z>> \in [1 .. 3 -> Level]
    OBVIOUS
<1>2. 0 \in Level /\ 1 \in Level
    BY DEF Level
<1> QED BY <1>1, <1>2 DEF PinCommands, Pins

\* The reads are finitely many and their number grows with the commands.
LEMMA ReadsCount ==
    ASSUME NEW T, NEW a \in Seq(T), NEW k \in 0 .. Len(a), NEW n \in 0 .. k
    PROVE  /\ IsFiniteSet(ReadsOf(a, n)) /\ Cardinality(ReadsOf(a, n)) \in Nat
           /\ Cardinality(ReadsOf(a, n)) <= Cardinality(ReadsOf(a, k))
           /\ n > 0 /\ a[n] = "R" => Cardinality(ReadsOf(a, n)) >= 1
<1>1. IsFiniteSet(1 .. k)
    BY FS_Interval
<1>2. ReadsOf(a, n) \subseteq ReadsOf(a, k) /\ ReadsOf(a, k) \subseteq 1 .. k
    BY DEF ReadsOf
<1>3. IsFiniteSet(ReadsOf(a, k))
    BY <1>1, <1>2, FS_Subset
<1>4. IsFiniteSet(ReadsOf(a, n)) /\ Cardinality(ReadsOf(a, n)) <= Cardinality(ReadsOf(a, k))
    BY <1>2, <1>3, FS_Subset
<1>5. Cardinality(ReadsOf(a, n)) \in Nat
    BY <1>4, FS_CardinalityType
<1>6. ASSUME n > 0, a[n] = "R" PROVE Cardinality(ReadsOf(a, n)) >= 1
  <2>1. n \in ReadsOf(a, n)
      BY <1>6 DEF ReadsOf
  <2>2. Cardinality(ReadsOf(a, n)) # 0
      BY <1>4, <2>1, FS_EmptySet
  <2> QED BY <1>5, <2>2
<1> QED BY <1>4, <1>5, <1>6

\* One command more.
Counted(a, c, b, k) ==
    /\ \A n \in 0 .. k : ReadsOf(b, n) = ReadsOf(a, n)
    /\ Cardinality(ReadsOf(b, k + 1)) = Cardinality(ReadsOf(a, k)) + (IF c = "R" THEN 1 ELSE 0)

LEMMA ReadsMore ==
    ASSUME NEW T, NEW a \in Seq(T), NEW c \in T, NEW b, b = Append(a, c), NEW k, k = Len(a)
    PROVE  Counted(a, c, b, k)
<1>1. k \in Nat /\ b[k + 1] = c /\ \A n \in 1 .. k : b[n] = a[n]
    OBVIOUS
<1>2. \A n \in 0 .. k : ReadsOf(b, n) = ReadsOf(a, n)
    BY <1>1 DEF ReadsOf
<1>3. 1 .. k + 1 = (1 .. k) \union {k + 1} /\ k + 1 \notin 1 .. k
    BY <1>1
<1>4. ReadsOf(b, k + 1) = IF c = "R" THEN ReadsOf(a, k) \union {k + 1} ELSE ReadsOf(a, k)
    BY <1>1, <1>3 DEF ReadsOf
<1>5. IsFiniteSet(ReadsOf(a, k)) /\ Cardinality(ReadsOf(a, k)) \in Nat
    BY <1>1, ReadsCount
<1>6. k + 1 \notin ReadsOf(a, k)
    BY <1>3 DEF ReadsOf
<1>7. Cardinality(ReadsOf(a, k) \union {k + 1}) = Cardinality(ReadsOf(a, k)) + 1
    BY <1>5, <1>6, FS_AddElement
<1> QED BY <1>2, <1>4, <1>5, <1>7 DEF Counted

\* Another command leaves the pins before it, and sets those after it.
LEMMA PinsMore ==
    ASSUME NEW T, NEW a \in Seq(T), NEW c \in T, NEW b, b = Append(a, c), NEW k, k = Len(a), NEW first
    PROVE  /\ \A n \in 1 .. k + 1 : \A p : SetByOf(a, first, n, p) => SetByOf(b, first, n, p)
           /\ c \in PinCommands => SetByOf(b, first, k + 2, Pins(c))
           /\ c \notin PinCommands =>
                \A p : SetByOf(a, first, k + 1, p) => SetByOf(b, first, k + 2, p)
<1>1. k \in Nat /\ b[k + 1] = c /\ \A n \in 1 .. k : b[n] = a[n]
    OBVIOUS
<1>2. ASSUME NEW n \in 1 .. k + 1, NEW p, SetByOf(a, first, n, p) PROVE SetByOf(b, first, n, p)
  <2>1. \A m \in 1 .. n - 1 : b[m] = a[m]
      BY <1>1
  <2>2. \A m \in 1 .. n - 1 : m + 1 .. n - 1 \subseteq 1 .. n - 1
      OBVIOUS
  <2> QED BY <1>2, <2>1, <2>2 DEF SetByOf
<1>3. ASSUME c \in PinCommands PROVE SetByOf(b, first, k + 2, Pins(c))
  <2>1. k + 1 \in 1 .. (k + 2) - 1 /\ (k + 1) + 1 .. (k + 2) - 1 = {}
      BY <1>1
  <2> QED BY <1>1, <1>3, <2>1 DEF SetByOf
<1>4. ASSUME c \notin PinCommands, NEW p, SetByOf(a, first, k + 1, p) PROVE SetByOf(b, first, k + 2, p)
  <2>1. (k + 1) - 1 = k /\ (k + 2) - 1 = k + 1 /\ 1 .. k + 1 = (1 .. k) \union {k + 1}
      BY <1>1
  <2>2. \A m \in 1 .. k + 1 : b[m] = IF m \in 1 .. k THEN a[m] ELSE c
      BY <1>1, <2>1
  <2>3. \/ p = first /\ \A m \in 1 .. k : a[m] \notin PinCommands
        \/ \E m \in 1 .. k : /\ a[m] \in PinCommands /\ p = Pins(a[m])
                             /\ \A j \in m + 1 .. k : a[j] \notin PinCommands
      BY <1>4, <2>1 DEF SetByOf
  <2>4. CASE p = first /\ \A m \in 1 .. k : a[m] \notin PinCommands
      BY <1>4, <2>1, <2>2, <2>4 DEF SetByOf
  <2>5. CASE \E m \in 1 .. k : /\ a[m] \in PinCommands /\ p = Pins(a[m])
                               /\ \A j \in m + 1 .. k : a[j] \notin PinCommands
    <3>1. PICK m \in 1 .. k : /\ a[m] \in PinCommands /\ p = Pins(a[m])
                              /\ \A j \in m + 1 .. k : a[j] \notin PinCommands
        BY <2>5
    <3>2. m + 1 .. k + 1 = (m + 1 .. k) \union {k + 1} /\ m \in 1 .. k + 1 /\ m + 1 .. k \subseteq 1 .. k
        BY <1>1
    <3>3. \A j \in m + 1 .. k + 1 : b[j] \notin PinCommands
        BY <1>4, <2>2, <3>1, <3>2
    <3>4. b[m] = a[m]
        BY <1>1
    <3> QED BY <2>1, <3>1, <3>2, <3>3, <3>4 DEF SetByOf
  <2> QED BY <2>3, <2>4, <2>5
<1> QED BY <1>2, <1>3, <1>4

\* A tick looks at the TAP under the pins of all commands so far.
LEMMA TickInv == ASSUME BitbangIInv, NEW bit \in Level, tick(bit) PROVE BitbangIInv'
<1> USE DEF BitbangIInv
<1>1. CASE ~client_fd
  <2>1. /\ pc = "run" /\ pc' = "accept"
        /\ UNCHANGED <<tdo, seen, client_fd, quit, pins, chan, replies, asked, peer, sessions, issued>>
      BY <1>1 DEF tick
  <2>2. BitbangTypeOK'
      BY <2>1 DEF BitbangTypeOK
  <2>3. RepliesExact'
      BY <2>1 DEF RepliesExact, SetBy, Reads
  <2>4. Lockstep'
      BY <2>1 DEF Lockstep, SetBy
  <2> QED BY <2>2, <2>3, <2>4
<1>2. CASE client_fd
  <2> DEFINE r == [pins |-> pins, tdo |-> bit]
  <2>1. /\ pc = "run" /\ pc' = "read" /\ tdo' = bit /\ seen' = Append(seen, r)
        /\ UNCHANGED <<client_fd, quit, pins, chan, replies, asked, peer, sessions, issued>>
      BY <1>2 DEF tick, Sampled
  <2>2. /\ seen \in Seq(View) /\ asked \in Seq(Commands) /\ pins \in [1 .. 3 -> Level]
        /\ Len(seen) = Len(asked)
      BY <2>1 DEF BitbangTypeOK, Lockstep, View
  <2>3. r \in View
      BY <2>2 DEF View
  <2>4. PICK k : k = Len(seen) /\ k \in Nat
      BY <2>2
  <2>5. /\ seen' \in Seq(View) /\ Len(seen') = k + 1 /\ seen'[k + 1] = r
        /\ \A n \in 1 .. k : seen'[n] = seen[n]
      BY <2>1, <2>2, <2>3, <2>4
  <2>6. BitbangTypeOK'
      BY <2>1, <2>5 DEF BitbangTypeOK, View
  <2>7. Lockstep'
    <3>1. seen'[Len(seen')] = [pins |-> pins', tdo |-> tdo'] /\ Len(seen') = Len(asked') + 1
        BY <2>1, <2>2, <2>4, <2>5
    <3>2. peer' # "away"
        BY <1>2, <2>1 DEF Lockstep
    <3> QED BY <2>1, <3>1, <3>2 DEF Lockstep
  <2>8. ASSUME NEW n \in 1 .. k + 1 PROVE SetBy(n, seen[n].pins)'
    <3>1. CASE k = 0
      <4>1. n = 1 /\ 1 .. n - 1 = {}
          BY <3>1
      <4> QED BY <4>1 DEF SetBy
    <3>2. CASE k > 0 /\ n \in 1 .. k
      <4>1. SetBy(n, seen[n].pins) /\ 1 \in 1 .. k
          BY <2>2, <2>4, <3>2 DEF RepliesExact
      <4>2. seen'[n] = seen[n] /\ seen'[1] = seen[1]
          BY <2>5, <3>2, <4>1
      <4> QED BY <2>1, <4>1, <4>2 DEF SetBy
    <3>3. CASE k > 0 /\ n = k + 1
      <4>1. seen # <<>> /\ 1 \in 1 .. k
          BY <2>2, <2>4, <3>3
      <4>2. SetBy(n, pins)
          BY <2>1, <2>2, <2>4, <3>3, <4>1 DEF Lockstep
      <4>3. seen'[n].pins = pins /\ seen'[1] = seen[1]
          BY <2>5, <3>3, <4>1
      <4> QED BY <2>1, <4>2, <4>3 DEF SetBy
    <3> QED BY <2>4, <3>1, <3>2, <3>3
  <2>9. RepliesExact'
    <3>1. DOMAIN seen' = 1 .. k + 1 /\ DOMAIN asked = 1 .. k
        BY <2>2, <2>4, <2>5
    <3>2. /\ Len(replies) = Cardinality(Reads(Len(asked)))
          /\ \A n \in DOMAIN asked : asked[n] = "R" => replies[Cardinality(Reads(n))] = seen[n].tdo
        BY DEF RepliesExact
    <3>3. /\ Len(replies') = Cardinality(Reads(Len(asked))')
          /\ \A n \in DOMAIN asked' : asked'[n] = "R" => replies'[Cardinality(Reads(n)')] = seen'[n].tdo
        BY <2>1, <2>5, <3>1, <3>2 DEF Reads
    <3>4. /\ Len(seen') = Len(asked') + 1 /\ Len(seen') >= Len(asked')
          /\ \A n \in DOMAIN seen' : n <= Len(asked') + 1
        BY <2>1, <2>2, <2>4, <2>5, <3>1
    <3>5. \A n \in DOMAIN seen' : SetBy(n, seen[n].pins)'
        BY <2>8, <3>1
    <3> QED BY <2>1, <3>3, <3>4, <3>5 DEF RepliesExact
  <2> QED BY <2>6, <2>7, <2>9
<1> QED BY <1>1, <1>2

\* A command is executed under the view of its tick.
LEMMA ExecuteInv == ASSUME BitbangIInv, execute_command PROVE BitbangIInv'
<1> DEFINE c == Head(chan)
           p == IF c \in PinCommands THEN Pins(c) ELSE pins
<1> USE DEF BitbangIInv
<1>1. /\ pc = "read" /\ chan # <<>> /\ pc' = "run" /\ pins' = p
      /\ quit' = (quit \/ c = "Q") /\ asked' = Append(asked, c)
      /\ replies' = IF c = "R" THEN Append(replies, tdo) ELSE replies
      /\ UNCHANGED <<tdo, seen, sessions, issued>>
    BY DEF execute_command
<1>2. /\ chan \in Seq(Commands) /\ replies \in Seq(Level) /\ asked \in Seq(Commands)
      /\ seen \in Seq(View) /\ pins \in [1 .. 3 -> Level] /\ tdo \in Level /\ quit \in BOOLEAN
      /\ peer # "away" /\ peer \in {"away", "here", "gone"}
    BY <1>1 DEF BitbangTypeOK, View, Lockstep
<1>3. c \in Commands /\ Tail(chan) \in Seq(Commands)
    BY <1>1, <1>2
<1>4. /\ client_fd' \in BOOLEAN /\ chan' \in Seq(Commands) /\ peer' \in {"away", "here", "gone"}
      /\ client_fd' => peer' # "away"
  <2>1. PICK q \in BOOLEAN : q = (quit \/ c = "Q")
      OBVIOUS
  <2>2. /\ client_fd' = ~q /\ chan' = IF q THEN <<>> ELSE Tail(chan)
        /\ peer' = IF q THEN "away" ELSE peer
      BY <2>1 DEF execute_command, closeIf
  <2>3. <<>> \in Seq(Commands)
      OBVIOUS
  <2> QED BY <1>2, <1>3, <2>2, <2>3
<1>5. p \in [1 .. 3 -> Level]
    BY <1>2, PinsTyped
<1>6. PICK k : k = Len(asked) /\ k \in Nat
  <2>1. Len(asked) \in Nat
      BY <1>2
  <2> QED BY <2>1
<1>7. /\ Len(seen) = k + 1 /\ seen[k + 1] = [pins |-> pins, tdo |-> tdo]
    BY <1>1, <1>2, <1>6 DEF Lockstep
<1>8. asked' \in Seq(Commands) /\ Len(asked') = k + 1 /\ asked'[k + 1] = c
      /\ \A n \in 1 .. k : asked'[n] = asked[n]
    BY <1>1, <1>2, <1>3, <1>6
<1>9. replies' \in Seq(Level)
    BY <1>1, <1>2
<1>10. BitbangTypeOK'
    BY <1>1, <1>2, <1>4, <1>5, <1>8, <1>9 DEF BitbangTypeOK, View
<1> HIDE DEF c, p
<1>11. PICK first : first = seen[1].pins
    OBVIOUS
<1>12. /\ \A n \in 1 .. k + 1 : \A q : SetByOf(asked, first, n, q) => SetByOf(asked', first, n, q)
       /\ c \in PinCommands => SetByOf(asked', first, k + 2, Pins(c))
       /\ c \notin PinCommands => \A q : SetByOf(asked, first, k + 1, q) => SetByOf(asked', first, k + 2, q)
    BY <1>1, <1>2, <1>3, <1>6, PinsMore
<1>13. \A n \in 1 .. k + 1 : SetByOf(asked, first, n, seen[n].pins)
  <2>1. \A n \in 1 .. k + 1 : SetBy(n, seen[n].pins)
      BY <1>2, <1>7 DEF RepliesExact
  <2> QED BY <1>11, <2>1 DEF SetBy, SetByOf
<1>14. SetByOf(asked', first, k + 2, pins')
  <2>1. k + 1 \in 1 .. k + 1 /\ seen[k + 1].pins = pins
      BY <1>6, <1>7
  <2>2. SetByOf(asked, first, k + 1, pins)
      BY <1>13, <2>1
  <2> QED BY <1>1, <1>12, <2>2 DEF p
<1>15. Lockstep'
  <2>1. SetBy(Len(asked) + 1, pins)'
    <3>1. Len(asked') + 1 = k + 2
        BY <1>6, <1>8
    <3> QED BY <1>1, <1>11, <1>14, <3>1 DEF SetBy, SetByOf
  <2>2. Len(seen') = Len(asked') + 0
      BY <1>1, <1>6, <1>7, <1>8
  <2> QED BY <1>1, <1>4, <2>1, <2>2 DEF Lockstep
<1>16. /\ \A n \in 0 .. k : ReadsOf(asked', n) = ReadsOf(asked, n)
       /\ Cardinality(ReadsOf(asked', k + 1)) = Cardinality(ReadsOf(asked, k)) + (IF c = "R" THEN 1 ELSE 0)
  <2>1. PICK b : b = asked'
      OBVIOUS
  <2>2. b = Append(asked, c) /\ asked \in Seq(Commands) /\ c \in Commands /\ k = Len(asked)
      BY <1>1, <1>2, <1>3, <1>6, <2>1
  <2>3. Counted(asked, c, b, k)
      BY <2>2, ReadsMore
  <2> QED BY <2>1, <2>3 DEF Counted
<1>17. /\ Len(replies) = Cardinality(ReadsOf(asked, k))
       /\ \A n \in 1 .. k : asked[n] = "R" => replies[Cardinality(ReadsOf(asked, n))] = seen[n].tdo
  <2>1. \A n : Reads(n) = ReadsOf(asked, n)
      BY DEF Reads, ReadsOf
  <2>2. DOMAIN asked = 1 .. k
      BY <1>2, <1>6
  <2>3. /\ Len(replies) = Cardinality(Reads(Len(asked)))
        /\ \A n \in DOMAIN asked : asked[n] = "R" => replies[Cardinality(Reads(n))] = seen[n].tdo
      BY DEF RepliesExact
  <2> QED BY <1>6, <2>1, <2>2, <2>3
<1>18. Len(replies') = Cardinality(ReadsOf(asked', k + 1))
    BY <1>1, <1>2, <1>16, <1>17
<1>19. ASSUME NEW n \in 1 .. k + 1, asked'[n] = "R"
       PROVE  replies'[Cardinality(ReadsOf(asked', n))] = seen[n].tdo
  <2>1. CASE n = k + 1
    <3>1. c = "R" /\ replies' = Append(replies, tdo) /\ seen[n].tdo = tdo
        BY <1>1, <1>7, <1>8, <1>19, <2>1
    <3>2. Cardinality(ReadsOf(asked', n)) = Len(replies) + 1
        BY <1>16, <1>17, <2>1, <3>1
    <3> QED BY <1>2, <3>1, <3>2
  <2>2. CASE n \in 1 .. k
    <3>1. asked[n] = "R" /\ n \in 0 .. k /\ k \in 0 .. Len(asked) /\ n > 0
        BY <1>6, <1>8, <1>19, <2>2
    <3>2. PICK j : j = Cardinality(ReadsOf(asked, n))
        OBVIOUS
    <3>3. j \in Nat /\ j <= Cardinality(ReadsOf(asked, k)) /\ j >= 1
        BY <1>2, <3>1, <3>2, ReadsCount
    <3>4. j \in 1 .. Len(replies) /\ Len(replies) \in Nat
        BY <1>2, <1>17, <3>3
    <3>5. replies'[j] = replies[j]
        BY <1>1, <1>2, <3>4
    <3>6. ReadsOf(asked', n) = ReadsOf(asked, n)
        BY <1>16, <3>1
    <3> QED BY <1>17, <2>2, <3>1, <3>2, <3>5, <3>6
  <2> QED BY <1>6, <2>1, <2>2
<1>20. RepliesExact'
  <2>1. DOMAIN seen' = 1 .. k + 1 /\ DOMAIN asked' = 1 .. k + 1
      BY <1>1, <1>2, <1>7, <1>8
  <2>2. \A n \in DOMAIN seen' : SetBy(n, seen[n].pins)'
    <3>1. \A n \in 1 .. k + 1 : SetByOf(asked', first, n, seen[n].pins)
        BY <1>12, <1>13
    <3> QED BY <1>1, <1>11, <2>1, <3>1 DEF SetBy, SetByOf
  <2>3. /\ Len(replies') = Cardinality(Reads(Len(asked))')
        /\ \A n \in DOMAIN asked' : asked'[n] = "R" => replies'[Cardinality(Reads(n)')] = seen'[n].tdo
      BY <1>1, <1>8, <1>18, <1>19, <2>1 DEF Reads, ReadsOf
  <2>4. /\ Len(seen') = Len(asked') + 0 /\ Len(seen') >= Len(asked')
        /\ \A n \in DOMAIN seen' : n <= Len(asked') + 1
      BY <1>1, <1>6, <1>7, <1>8, <2>1
  <2> QED BY <1>1, <2>2, <2>3, <2>4 DEF RepliesExact
<1> QED BY <1>10, <1>15, <1>20

\* Every step of the server and of the client keeps them in lockstep.
LEMMA BitbangNext == BitbangIInv /\ [Server \/ Client]_bitbangVars => BitbangIInv'
<1> SUFFICES ASSUME BitbangIInv, [Server \/ Client]_bitbangVars PROVE BitbangIInv'
    OBVIOUS
<1> USE DEF BitbangIInv
<1>1. MaxSessions \in Nat /\ MaxCommands \in Nat
    BY BitbangAssumption
<1>2. ASSUME NEW bit \in Level, tick(bit) PROVE BitbangIInv'
    BY <1>2, TickInv
<1>3. CASE accept
  <2>1. /\ pc = "accept" /\ peer # "away" /\ pc' = "run" /\ client_fd' = TRUE
        /\ UNCHANGED <<quit, pins, tdo, chan, replies, asked, seen, peer, sessions, issued>>
      BY <1>3 DEF accept
  <2>2. BitbangTypeOK' /\ RepliesExact'
      BY <2>1 DEF BitbangTypeOK, RepliesExact, SetBy, Reads
  <2>3. Lockstep'
      BY <2>1 DEF Lockstep, SetBy
  <2> QED BY <2>2, <2>3
<1>4. CASE execute_command
    BY <1>4, ExecuteInv
<1>5. CASE abort
  <2>1. /\ pc \in {"accept", "read"} /\ pc' = "dead" /\ chan' \in {chan, Tail(chan)}
        /\ chan' # chan => chan # <<>>
        /\ UNCHANGED <<client_fd, quit, pins, tdo, replies, asked, seen, peer, sessions, issued>>
      BY <1>5 DEF abort
  <2>2. BitbangTypeOK'
    <3>1. chan' \in Seq(Commands)
      <4>1. chan \in Seq(Commands)
          BY DEF BitbangTypeOK
      <4>2. chan # <<>> => Tail(chan) \in Seq(Commands)
          BY <4>1
      <4> QED BY <2>1, <4>1, <4>2
    <3> QED BY <2>1, <3>1 DEF BitbangTypeOK
  <2>3. RepliesExact'
      BY <2>1 DEF RepliesExact, SetBy, Reads
  <2>4. Lockstep'
      BY <2>1 DEF Lockstep
  <2> QED BY <2>2, <2>3, <2>4
<1>6. CASE Connect
  <2>1. /\ peer = "away" /\ peer' = "here" /\ sessions < MaxSessions /\ sessions' = sessions + 1
        /\ issued' = 0 /\ replies' = <<>> /\ asked' = <<>> /\ seen' = <<>>
        /\ UNCHANGED <<pc, client_fd, quit, pins, tdo, chan>>
      BY <1>6 DEF Connect
  <2>2. pc # "read"
      BY <2>1 DEF Lockstep
  <2>3. /\ <<>> \in Seq(Level) /\ <<>> \in Seq(Commands)
        /\ <<>> \in Seq([pins : [1 .. 3 -> Level], tdo : Level])
      OBVIOUS
  <2>4. BitbangTypeOK'
      BY <1>1, <2>1, <2>3 DEF BitbangTypeOK
  <2>5. Len(seen') = 0 /\ Len(asked') = 0 /\ Len(replies') = 0 /\ DOMAIN seen' = {} /\ DOMAIN asked' = {}
      BY <2>1
  <2>6. Cardinality(Reads(Len(asked))') = 0
    <3>1. Reads(Len(asked))' = {}
        BY <2>5 DEF Reads
    <3> QED BY <3>1, FS_EmptySet
  <2>7. RepliesExact'
      BY <2>1, <2>2, <2>5, <2>6 DEF RepliesExact
  <2>8. Lockstep'
      BY <2>1, <2>2, <2>5 DEF Lockstep
  <2> QED BY <2>4, <2>7, <2>8
<1>7. ASSUME NEW c \in Commands, Send(c) PROVE BitbangIInv'
  <2>1. /\ issued < MaxCommands /\ chan' = Append(chan, c) /\ issued' = issued + 1
        /\ UNCHANGED <<pc, client_fd, quit, pins, tdo, replies, asked, seen, peer, sessions>>
      BY <1>7 DEF Send, server
  <2>2. BitbangTypeOK'
      BY <1>1, <2>1 DEF BitbangTypeOK
  <2>3. RepliesExact' /\ Lockstep'
      BY <2>1 DEF RepliesExact, Lockstep, SetBy, Reads
  <2> QED BY <2>2, <2>3
<1>8. CASE Leave
  <2>1. /\ peer' = "gone"
        /\ UNCHANGED <<pc, client_fd, quit, pins, tdo, replies, asked, seen, chan, sessions, issued>>
      BY <1>8 DEF Leave, server
  <2> QED BY <2>1 DEF BitbangTypeOK, RepliesExact, Lockstep, SetBy, Reads
<1>9. CASE UNCHANGED bitbangVars
    BY <1>9 DEF bitbangVars, server, BitbangTypeOK, RepliesExact, Lockstep, SetBy, Reads
<1> QED BY <1>2, <1>3, <1>4, <1>5, <1>6, <1>7, <1>8, <1>9 DEF Server, Client

\* Every 'R' is answered once and in order with the TDO that the TAP, whatever it is,
\* showed under the pins of all the commands before it, for every number of commands and
\* connections and in every interleaving with the client, and the server stays typed.
THEOREM BitbangIsExact == BitbangSpec => []BitbangInv
<1>1. InitBitbang => BitbangIInv
  <2> SUFFICES ASSUME InitBitbang PROVE BitbangIInv
      OBVIOUS
  <2>1. BitbangTypeOK
    <3>1. <<1, 1, 1>> \in [1 .. 3 -> Level]
        BY DEF Level
    <3>2. /\ <<>> \in Seq(Commands) /\ <<>> \in Seq(Level) /\ 0 \in Level
          /\ <<>> \in Seq([pins : [1 .. 3 -> Level], tdo : Level])
        BY DEF Level
    <3>3. 0 \in 0 .. MaxSessions /\ 0 \in 0 .. MaxCommands
        BY BitbangAssumption
    <3> QED BY <3>1, <3>2, <3>3 DEF InitBitbang, BitbangTypeOK
  <2>2. /\ Len(seen) = 0 /\ Len(asked) = 0 /\ Len(replies) = 0 /\ DOMAIN seen = {} /\ DOMAIN asked = {}
        /\ pc = "run" /\ client_fd = FALSE
      BY DEF InitBitbang
  <2>3. Cardinality(Reads(Len(asked))) = 0
    <3>1. Reads(Len(asked)) = {}
        BY <2>2 DEF Reads
    <3> QED BY <3>1, FS_EmptySet
  <2>4. RepliesExact /\ Lockstep
      BY <2>2, <2>3 DEF InitBitbang, RepliesExact, Lockstep
  <2> QED BY <2>1, <2>4 DEF BitbangIInv
<1>2. BitbangIInv => BitbangInv
    BY DEF BitbangIInv, BitbangInv
<1> QED BY <1>1, <1>2, BitbangNext, PTL DEF BitbangSpec

-----------------------------------------------------------------------------
\* The commit log.

Kind == {"plain", "fp", "csr", "csr_trap", "trap", "ecall"}
Change == ({"mstatus"} \union Csrs) \X SUBSET Flags
Line == [kind : Kind, flags : Seq(SUBSET Flags)] \union [kind : Kind, tval : BOOLEAN]
Truth == [kind : Kind, flags : Seq(SUBSET Flags)]

\* The flags on a line end with a value.
Ends(flags, new) == flags # <<>> /\ flags[Len(flags)] = new

\* A line tells what committed.
Tells(l, t) ==
    /\ l.kind = t.kind
    /\ l.kind \in {"plain", "fp", "csr"} =>
         IF t.flags = <<>> THEN l.flags = <<>> ELSE Ends(l.flags, t.flags[1])

\* Nothing but fflags is left over.
FlagsOnly(changes) ==
    changes.fflags \in Seq(SUBSET Flags) /\ changes = [fflags |-> changes.fflags, others |-> <<>>]

(* Between two cycles nothing but fflags is left over and the stream is open; *)
(* every line tells what committed.                                          *)
LogIInv ==
    /\ FlagsOnly(csr_changes) /\ stream = "open"
    /\ last_fflags \in (SUBSET Flags) \union {Garbage} /\ fflags \in SUBSET Flags
    /\ lines \in Seq(Line) /\ truth \in Seq(Truth) /\ Len(lines) = Len(truth)
    /\ \A n \in 1 .. Len(lines) : Tells(lines[n], truth[n])
    /\ shown \in Seq(Change) /\ made = shown

\* One line more, which tells what committed, is a log with one line more.
LEMMA TellsMore ==
    ASSUME NEW a \in Seq(Line), NEW b \in Seq(Truth), Len(a) = Len(b),
           \A n \in 1 .. Len(a) : Tells(a[n], b[n]),
           NEW l \in Line, NEW t \in Truth, Tells(l, t)
    PROVE  /\ Append(a, l) \in Seq(Line) /\ Append(b, t) \in Seq(Truth)
           /\ Len(Append(a, l)) = Len(Append(b, t))
           /\ \A n \in 1 .. Len(Append(a, l)) : Tells(Append(a, l)[n], Append(b, t)[n])
<1>1. Append(a, l) \in Seq(Line) /\ Append(b, t) \in Seq(Truth) /\ Len(Append(a, l)) = Len(Append(b, t))
    OBVIOUS
<1>2. ASSUME NEW n \in 1 .. Len(Append(a, l)) PROVE Tells(Append(a, l)[n], Append(b, t)[n])
  <2>1. CASE n \in 1 .. Len(a)
      BY <2>1
  <2>2. CASE n = Len(a) + 1
      BY <2>2
  <2> QED BY <2>1, <2>2
<1> QED BY <1>1, <1>2

\* An instruction that completes, and one that does not.
Completes(i) == i.kind \in {"plain", "fp", "csr"}
Fails(i) == i.kind \in {"trap", "ecall", "csr_trap"}

LogState == [changes : [fflags : Seq(SUBSET Flags), others : Seq(Change)],
             last : (SUBSET Flags) \union {Garbage}, stream : {"open", "closed", "failed"},
             lines : Seq(Line), shown : Seq(Change)]

\* What is printed joins what the file has.
LEMMA Emitted ==
    ASSUME NEW s \in LogState, NEW l \in Line, NEW x \in Seq(Change),
           s.stream = "open", NEW e, e = Emit(s, l, x)
    PROVE  /\ e \in LogState /\ e.lines = Append(s.lines, l) /\ e.shown = s.shown \o x
           /\ e.stream = "open" /\ e.last = s.last /\ e.changes = s.changes
<1>1. s.lines \in Seq(Line) /\ s.shown \in Seq(Change)
    BY DEF LogState
<1>2. Append(s.lines, l) \in Seq(Line) /\ s.shown \o x \in Seq(Change)
    BY <1>1
<1>3. e = [s EXCEPT !.lines = Append(s.lines, l), !.shown = s.shown \o x]
    BY DEF LogState, Emit
<1> QED BY <1>2, <1>3 DEF LogState

Exception(i) == [kind |-> i.kind, tval |-> i.kind # "ecall"]

\* The log d is the log s with the exception of instruction i.
Reported(s, i, d) ==
    /\ d.stream = "open" /\ d.last = s.last /\ d.shown = s.shown
    /\ d.lines = Append(s.lines, Exception(i)) /\ Exception(i) \in Line
    /\ d.changes = IF i.kind = "csr_trap" THEN NoChange ELSE s.changes

\* An exception is closed, appended and opened around: it adds its line too.
LEMMA DumpTrap ==
    ASSUME NEW s \in LogState, s.stream = "open", NEW i, Fails(i), NEW d, d = dump_file(s, i)
    PROVE  Reported(s, i, d)
<1>0. PICK l : l = [kind |-> i.kind, tval |-> i.kind # "ecall"]
    OBVIOUS
<1>1. l \in Line
    BY <1>0 DEF Line, Kind, Fails
<1>2. PICK s1 : s1 = [s EXCEPT !.stream = "closed"]
    OBVIOUS
<1>3. s1 = Close(s) /\ s1 \in LogState /\ s1.stream = "closed" /\ s1.lines = s.lines /\ s1.shown = s.shown
      /\ s1.changes = s.changes /\ s1.last = s.last
    BY <1>2 DEF Close, LogState
<1>4. PICK s2 : s2 = Open(s1)
    OBVIOUS
<1>5. s2 \in LogState /\ s2.stream = "open" /\ s2.lines = s.lines /\ s2.shown = s.shown
      /\ s2.changes = s.changes /\ s2.last = s.last
    BY <1>3, <1>4 DEF Open, LogState
<1>6. PICK s3 : s3 = Emit(s2, l, <<>>)
    OBVIOUS
<1>7. s3 \in LogState /\ s3.stream = "open" /\ s3.lines = Append(s.lines, l) /\ s3.shown = s.shown
      /\ s3.changes = s.changes /\ s3.last = s.last
  <2>1. PICK none : none = <<>>
      OBVIOUS
  <2>2. none \in Seq(Change) /\ s2.shown \o none = s2.shown /\ s3 = Emit(s2, l, none)
      BY <1>5, <1>6, <2>1 DEF LogState
  <2>3. l \in Line /\ s2 \in LogState /\ s2.stream = "open"
      BY <1>1, <1>5
  <2>4. s3 \in LogState
      BY <2>2, <2>3, Emitted
  <2>5. s3.lines = Append(s2.lines, l)
      BY <2>2, <2>3, Emitted
  <2>6. s3.shown = s2.shown \o none
      BY <2>2, <2>3, Emitted
  <2>7. s3.stream = "open" /\ s3.last = s2.last /\ s3.changes = s2.changes
      BY <2>2, <2>3, Emitted
  <2> QED BY <1>5, <2>2, <2>4, <2>5, <2>6, <2>7
<1>8. PICK s4 : s4 = Close(s3)
    OBVIOUS
<1>9. s4 \in LogState /\ s4.stream = "closed" /\ s4.lines = Append(s.lines, l) /\ s4.shown = s.shown
      /\ s4.changes = s.changes /\ s4.last = s.last
    BY <1>7, <1>8 DEF Close, LogState
<1>10. PICK s5 : s5 = Open(s4)
    OBVIOUS
<1>11. s5 \in LogState /\ s5.stream = "open" /\ s5.lines = Append(s.lines, l) /\ s5.shown = s.shown
       /\ s5.changes = s.changes /\ s5.last = s.last
    BY <1>9, <1>10 DEF Open, LogState
<1>12. s5 = Open(dump_xcpt(Close(s), i.kind))
    BY <1>0, <1>3, <1>4, <1>6, <1>8, <1>10 DEF dump_xcpt
<1>13. d = IF i.kind = "csr_trap" THEN [s5 EXCEPT !.changes = NoChange] ELSE s5
    BY <1>12 DEF dump_file, Fails
<1>14. /\ d.stream = "open" /\ d.last = s.last /\ d.shown = s.shown /\ d.lines = Append(s.lines, l)
       /\ d.changes = IF i.kind = "csr_trap" THEN NoChange ELSE s.changes
    BY <1>11, <1>13 DEF LogState
<1> QED BY <1>0, <1>1, <1>14 DEF Reported, Exception

\* What an instruction may be.
LEMMA Instructions ==
    /\ \A i \in Pairable : i.kind \in {"plain", "fp"} /\ (i.kind = "fp" => i.flags \in SUBSET Flags)
    /\ \A i \in Alone : /\ i.kind \in {"trap", "ecall", "csr_trap", "csr"}
                        /\ i.kind = "csr" => i.addr \in Csrs /\ i.value \in SUBSET Flags
BY DEF Pairable, Alone, Plain, Fp, Csr, Trap

\* A sequence of one element.
LEMMA Single == ASSUME NEW T, NEW x \in T PROVE <<x>> \in Seq(T)
OBVIOUS

\* One element more at the end of a sequence.
LEMMA OneMore ==
    ASSUME NEW T, NEW s \in Seq(T), NEW x \in T
    PROVE  s \o <<x>> = Append(s, x)
OBVIOUS

\* Two elements more.
LEMMA TwoMore ==
    ASSUME NEW T, NEW s \in Seq(T), NEW x \in T, NEW y \in T
    PROVE  s \o <<x, y>> = Append(Append(s, x), y)
OBVIOUS

\* The state a cycle begins with: what is left over and what is reported.
LEMMA Begins ==
    ASSUME LogIInv, NEW reports \in [fflags : Seq(SUBSET Flags), others : Seq(Change)],
           NEW s, s = State(reports)
    PROVE  /\ s \in LogState /\ s.stream = "open" /\ s.last = last_fflags
           /\ s.changes.fflags = csr_changes.fflags \o reports.fflags
           /\ s.changes.others = reports.others
           /\ s.lines = lines /\ s.shown = shown
<1>1. <<>> \o reports.others = reports.others /\ reports.others \in Seq(Change)
    OBVIOUS
<1>2. csr_changes.others = <<>> /\ csr_changes.fflags \in Seq(SUBSET Flags)
    BY DEF LogIInv, FlagsOnly
<1>3. PICK f : f = csr_changes.fflags \o reports.fflags
    OBVIOUS
<1>4. f \in Seq(SUBSET Flags)
    BY <1>2, <1>3
<1>5. s = [changes |-> [fflags |-> f, others |-> reports.others],
           last |-> last_fflags, stream |-> "open", lines |-> lines, shown |-> shown]
    BY <1>1, <1>2, <1>3 DEF State, LogIInv
<1> QED BY <1>1, <1>3, <1>4, <1>5 DEF LogState, LogIInv

\* The flags after a cycle, and what is reported of it.
LEMMA Reporting ==
    ASSUME LogIInv, NEW is \in Bundles, NEW status \in Status, NEW new, new = NewFlags(is),
           NEW reports, reports = Reports(is, status, new)
    PROVE  /\ new \in SUBSET Flags
           /\ reports \in [fflags : Seq(SUBSET Flags), others : Seq(Change)]
           /\ (\E n \in DOMAIN is : is[n].kind = "fp") => reports.fflags = <<new>>
           /\ is[1].kind \in {"trap", "ecall"} => reports.others = <<>>
<1>1. /\ DOMAIN is \in {1 .. 1, 1 .. 2}
      /\ \A n \in DOMAIN is : is[n] \in Pairable \/ (DOMAIN is = 1 .. 1 /\ is[n] \in Alone)
    BY DEF Bundles
<1>2. /\ \A n \in DOMAIN is : is[n].kind = "fp" => is[n].flags \in SUBSET Flags
      /\ is[1].kind = "csr" => is[1].addr \in Csrs /\ is[1].value \in SUBSET Flags
      /\ is[1].kind = "csr" => \A n \in DOMAIN is : is[n].kind = "csr"
      /\ is[1].kind \in {"trap", "ecall"} => DOMAIN is = 1 .. 1
      /\ (\E n \in DOMAIN is : is[n].kind \in {"trap", "ecall"}) => is[1].kind \in {"trap", "ecall"}
    BY <1>1, Instructions
<1>3. new \in SUBSET Flags
    BY <1>2 DEF NewFlags, Flagged, LogIInv
<1>4. status \in Seq(Change)
  <2>1. <<"mstatus", {}>> \in Change
      BY DEF Change
  <2>2. <<>> \in Seq(Change) /\ <<<<"mstatus", {}>>>> \in Seq(Change)
      BY <2>1, Single
  <2> QED BY <2>2 DEF Status
<1>5. is[1].kind = "csr" => <<is[1].addr, is[1].value>> \in Change
    BY <1>2 DEF Change
<1>6. CASE is[1].kind \in {"trap", "ecall"}
  <2>1. reports = NoChange
      BY <1>1, <1>6 DEF Reports
  <2>2. ~\E n \in DOMAIN is : is[n].kind = "fp"
      BY <1>1, <1>2, <1>6
  <2> QED BY <1>3, <2>1, <2>2 DEF NoChange
<1>7. CASE is[1].kind \notin {"trap", "ecall"}
  <2> DEFINE fp == \E n \in DOMAIN is : is[n].kind = "fp"
             written == is[1].kind = "csr"
             f == IF fp THEN <<new>>
                  ELSE IF written /\ is[1].addr = "fflags" THEN <<is[1].value>> ELSE <<>>
             x == IF written /\ is[1].addr # "fflags" THEN <<<<is[1].addr, is[1].value>>>> ELSE <<>>
  <2>1. reports = [fflags |-> f, others |-> status \o x]
      BY <1>2, <1>7 DEF Reports, Flagged
  <2>2. x \in Seq(Change)
      BY <1>5
  <2>3. f \in Seq(SUBSET Flags)
    <3>1. <<>> \in Seq(SUBSET Flags) /\ <<new>> \in Seq(SUBSET Flags)
        BY <1>3, Single
    <3>2. written => <<is[1].value>> \in Seq(SUBSET Flags)
        BY <1>2, Single
    <3> QED BY <3>1, <3>2
  <2>4. fp => f = <<new>>
      OBVIOUS
  <2> HIDE DEF f, x
  <2>5. status \o x \in Seq(Change)
      BY <1>4, <2>2
  <2> QED BY <1>3, <1>7, <2>1, <2>3, <2>4, <2>5
<1> QED BY <1>6, <1>7

\* What committed, with the flags then in force.
Happened(i, new) == [kind |-> i.kind, flags |-> IF i.kind = "fp" THEN <<new>> ELSE <<>>]

\* What happened is a truth of the right type.
LEMMA HappenedTyped ==
    ASSUME NEW i, i.kind \in Kind, NEW new \in SUBSET Flags
    PROVE  /\ Happened(i, new) \in Truth /\ Happened(i, new).kind = i.kind
           /\ Happened(i, new).flags = IF i.kind = "fp" THEN <<new>> ELSE <<>>
<1>1. <<>> \in Seq(SUBSET Flags) /\ <<new>> \in Seq(SUBSET Flags)
    BY Single
<1> QED BY <1>1 DEF Happened, Truth

\* The flags of an instruction are the last in the list, or were those of the one
\* before it.
Finds(s, i, new) ==
    i.kind = "fp" => Ends(s.changes.fflags, new) \/ (s.changes.fflags = <<>> /\ s.last = new)

\* The line of instruction i.
Printed(s, i) == [kind |-> i.kind, flags |-> PrintedFlags(s, i)]

\* The log d is the log s with the line of instruction i.
Logged(s, i, new, d) ==
    /\ d \in LogState /\ d.stream = "open"
    /\ d.lines = Append(s.lines, Printed(s, i))
    /\ Printed(s, i) \in Line /\ Tells(Printed(s, i), Happened(i, new))
    /\ d.shown = s.shown \o s.changes.others
    /\ d.changes = [fflags |-> IF i.kind = "fp" THEN <<>> ELSE s.changes.fflags, others |-> <<>>]
    /\ i.kind = "fp" => d.last = new

\* An instruction that commits finds its flags in the list, or left by the one
\* before it.  It adds its line, and leaves fflags that are not its own.
LEMMA Committed ==
    ASSUME NEW s \in LogState, s.stream = "open", NEW i, Completes(i),
           NEW new \in SUBSET Flags, Finds(s, i, new), NEW d, d = dump_file(s, i)
    PROVE  Logged(s, i, new, d)
<1>1. PICK flags : flags = PrintedFlags(s, i)
    OBVIOUS
<1>2. flags \in Seq(SUBSET Flags)
  <2>1. <<>> \in Seq(SUBSET Flags) /\ <<new>> \in Seq(SUBSET Flags) /\ s.changes.fflags \in Seq(SUBSET Flags)
      BY Single DEF LogState
  <2> QED BY <1>1, <2>1 DEF PrintedFlags, FlagsFound, Flagged, Finds, Ends
<1>3. i.kind # "fp" => flags = <<>>
    BY <1>1 DEF PrintedFlags, FlagsFound, Flagged
<1>4. i.kind = "fp" => flags # <<>> /\ flags[Len(flags)] = new
  <2>1. Ends(<<new>>, new)
      BY DEF Ends
  <2> QED BY <1>1, <2>1 DEF PrintedFlags, FlagsFound, Flagged, Finds, Ends
<1>5. PICK l : l = Printed(s, i)
    OBVIOUS
<1>6. l = [kind |-> i.kind, flags |-> flags] /\ l \in Line /\ l.kind = i.kind /\ l.flags = flags
    BY <1>1, <1>2, <1>5 DEF Printed, Line, Kind, Completes
<1>7. PICK e, x : e = Emit(s, l, x) /\ x = s.changes.others
    OBVIOUS
<1>8. x \in Seq(Change)
    BY <1>7 DEF LogState
<1>9. e \in LogState /\ e.lines = Append(s.lines, l) /\ e.shown = s.shown \o x /\ e.stream = "open"
  <2>1. e \in LogState
      BY <1>6, <1>7, <1>8, Emitted
  <2>2. e.lines = Append(s.lines, l)
      BY <1>6, <1>7, <1>8, Emitted
  <2>3. e.shown = s.shown \o x
      BY <1>6, <1>7, <1>8, Emitted
  <2>4. e.stream = "open"
      BY <1>6, <1>7, <1>8, Emitted
  <2> QED BY <2>1, <2>2, <2>3, <2>4
<1>10. d = [e EXCEPT !.changes = Left(s, i), !.last = IF flags = <<>> THEN @ ELSE flags[Len(flags)]]
    BY <1>1, <1>6, <1>7 DEF dump_file, dump_commit, PrintedCsrs, Completes
<1>11. Left(s, i) \in [fflags : Seq(SUBSET Flags), others : Seq(Change)]
    BY DEF Left, LeftFlags, LogState
<1>12. flags # <<>> => flags[Len(flags)] \in SUBSET Flags
    BY <1>2
<1>13. /\ d \in LogState /\ d.stream = "open" /\ d.lines = e.lines /\ d.shown = e.shown
       /\ d.changes = Left(s, i) /\ (flags # <<>> => d.last = flags[Len(flags)])
    BY <1>9, <1>10, <1>11, <1>12 DEF LogState
<1>14. d.changes = [fflags |-> IF i.kind = "fp" THEN <<>> ELSE s.changes.fflags, others |-> <<>>]
    BY <1>13 DEF Left, LeftFlags, Flagged
<1>15. Tells(l, Happened(i, new))
  <2>1. /\ Happened(i, new).kind = i.kind
        /\ Happened(i, new).flags = IF i.kind = "fp" THEN <<new>> ELSE <<>>
      BY HappenedTyped DEF Completes, Kind
  <2>2. <<new>> # <<>> /\ <<new>>[1] = new
      OBVIOUS
  <2>3. CASE i.kind = "fp"
      BY <1>4, <1>6, <2>1, <2>2, <2>3 DEF Tells, Ends
  <2>4. CASE i.kind # "fp"
      BY <1>3, <1>6, <2>1, <2>4 DEF Tells
  <2> QED BY <2>3, <2>4
<1> QED BY <1>4, <1>5, <1>6, <1>7, <1>9, <1>13, <1>14, <1>15 DEF Logged

\* A report that is appended to the list ends it.
LEMMA NewEnds ==
    ASSUME NEW old \in Seq(SUBSET Flags), NEW new \in SUBSET Flags
    PROVE  Ends(old \o <<new>>, new)
<1>1. old \o <<new>> = Append(old, new)
    BY OneMore
<1> QED BY <1>1 DEF Ends

\* After an instruction that completes nothing but fflags is left over.
LEMMA LeavesFlags ==
    ASSUME NEW s \in LogState, NEW i, NEW new, NEW d, Logged(s, i, new, d)
    PROVE  FlagsOnly(d.changes)
<1>1. s.changes.fflags \in Seq(SUBSET Flags) /\ <<>> \in Seq(SUBSET Flags)
    BY DEF LogState
<1> QED BY <1>1 DEF Logged, FlagsOnly

\* A log with what one or two instructions add to it.
LEMMA LogGrows ==
    ASSUME LogIInv, FlagsOnly(csr_changes'), stream' = "open",
           last_fflags' \in (SUBSET Flags) \union {Garbage}, fflags' \in SUBSET Flags,
           NEW l1 \in Line, NEW t1 \in Truth, Tells(l1, t1), NEW l2 \in Line, NEW t2 \in Truth, Tells(l2, t2),
           \/ lines' = Append(lines, l1) /\ truth' = Append(truth, t1)
           \/ lines' = Append(Append(lines, l1), l2) /\ truth' = Append(Append(truth, t1), t2),
           NEW x \in Seq(Change), shown' = shown \o x, made' = made \o x
    PROVE  LogIInv'
<1>1. /\ Append(lines, l1) \in Seq(Line) /\ Append(truth, t1) \in Seq(Truth)
      /\ Len(Append(lines, l1)) = Len(Append(truth, t1))
      /\ \A n \in 1 .. Len(Append(lines, l1)) : Tells(Append(lines, l1)[n], Append(truth, t1)[n])
    BY TellsMore DEF LogIInv
<1>2. PICK a, b : a = Append(lines, l1) /\ b = Append(truth, t1)
    OBVIOUS
<1>3. /\ Append(a, l2) \in Seq(Line) /\ Append(b, t2) \in Seq(Truth)
      /\ Len(Append(a, l2)) = Len(Append(b, t2))
      /\ \A n \in 1 .. Len(Append(a, l2)) : Tells(Append(a, l2)[n], Append(b, t2)[n])
    BY <1>1, <1>2, TellsMore
<1>4. /\ lines' \in Seq(Line) /\ truth' \in Seq(Truth) /\ Len(lines') = Len(truth')
      /\ \A n \in 1 .. Len(lines') : Tells(lines'[n], truth'[n])
    BY <1>1, <1>2, <1>3
<1>5. shown' \in Seq(Change) /\ made' = shown'
    BY DEF LogIInv
<1> QED BY <1>4, <1>5 DEF LogIInv, Tells

\* A cycle in which one instruction completes.
LEMMA OneCompletes ==
    ASSUME LogIInv, NEW i, Completes(i), <<i>> \in Bundles,
           NEW status \in Status, Commit(<<i>>, status)
    PROVE  LogIInv'
<1>1. PICK is, new, reports : is = <<i>> /\ new = NewFlags(is) /\ reports = Reports(is, status, new)
    OBVIOUS
<1>2. /\ new \in SUBSET Flags
      /\ reports \in [fflags : Seq(SUBSET Flags), others : Seq(Change)]
      /\ (\E n \in DOMAIN is : is[n].kind = "fp") => reports.fflags = <<new>>
    BY <1>1, Reporting
<1>3. i.kind = "fp" => reports.fflags = <<new>>
    BY <1>1, <1>2
<1>4. PICK s, d : s = State(reports) /\ d = dump_file(s, i)
    OBVIOUS
<1>5. /\ s \in LogState /\ s.stream = "open" /\ s.last = last_fflags
      /\ s.changes.fflags = csr_changes.fflags \o reports.fflags
      /\ s.changes.others = reports.others
      /\ s.lines = lines /\ s.shown = shown
    BY <1>2, <1>4, Begins
<1>6. Finds(s, i, new)
    BY <1>2, <1>3, <1>5, NewEnds DEF Finds, LogIInv, FlagsOnly
<1>7. Logged(s, i, new, d)
    BY <1>2, <1>4, <1>5, <1>6, Committed
<1>8. /\ csr_changes' = d.changes /\ last_fflags' = d.last /\ stream' = d.stream
      /\ lines' = d.lines /\ shown' = d.shown /\ fflags' = new
      /\ truth' = truth \o [n \in DOMAIN is |-> [kind |-> is[n].kind,
                                                flags |-> IF Flagged(is[n]) THEN <<new>> ELSE <<>>]]
      /\ made' = made \o IF is[1].kind = "csr_trap" THEN <<>> ELSE reports.others
    BY <1>1, <1>4 DEF Commit
<1>9. made' = made \o reports.others
    BY <1>1, <1>8 DEF Completes
<1>10. truth' = Append(truth, Happened(i, new))
  <2>1. [n \in DOMAIN is |-> [kind |-> is[n].kind, flags |-> IF Flagged(is[n]) THEN <<new>> ELSE <<>>]]
           = <<Happened(i, new)>>
      BY <1>1 DEF Happened, Flagged
  <2>2. i.kind \in Kind
      BY DEF Completes, Kind
  <2>3. Happened(i, new) \in Truth
      BY <1>2, <2>2, HappenedTyped
  <2> QED BY <1>8, <2>1, <2>3, OneMore DEF LogIInv
<1>11. FlagsOnly(csr_changes')
    BY <1>5, <1>7, <1>8, LeavesFlags
<1>12. Happened(i, new) \in Truth /\ Printed(s, i) \in Line /\ Tells(Printed(s, i), Happened(i, new))
  <2>1. i.kind \in Kind
      BY DEF Completes, Kind
  <2>2. Happened(i, new) \in Truth
      BY <1>2, <2>1, HappenedTyped
  <2> QED BY <1>7, <2>2 DEF Logged
<1>13. stream' = "open" /\ last_fflags' \in (SUBSET Flags) \union {Garbage} /\ fflags' \in SUBSET Flags
       /\ lines' = Append(lines, Printed(s, i)) /\ shown' = shown \o reports.others
    BY <1>2, <1>5, <1>7, <1>8 DEF Logged, LogState
<1>14. reports.others \in Seq(Change)
    BY <1>2
<1> QED BY <1>9, <1>10, <1>11, <1>12, <1>13, <1>14, LogGrows

\* A cycle with an exception.
LEMMA OneFails ==
    ASSUME LogIInv, NEW i, Fails(i), <<i>> \in Bundles,
           NEW status \in Status, Commit(<<i>>, status)
    PROVE  LogIInv'
<1>1. PICK is, new, reports : is = <<i>> /\ new = NewFlags(is) /\ reports = Reports(is, status, new)
    OBVIOUS
<1>2. /\ new \in SUBSET Flags
      /\ reports \in [fflags : Seq(SUBSET Flags), others : Seq(Change)]
      /\ is[1].kind \in {"trap", "ecall"} => reports.others = <<>>
    BY <1>1, Reporting
<1>3. i.kind # "csr_trap" => reports.others = <<>>
    BY <1>1, <1>2 DEF Fails
<1>4. PICK s, d : s = State(reports) /\ d = dump_file(s, i)
    OBVIOUS
<1>5. /\ s \in LogState /\ s.stream = "open" /\ s.last = last_fflags
      /\ s.changes.others = reports.others
      /\ s.lines = lines /\ s.shown = shown
    BY <1>2, <1>4, Begins
<1>6. Reported(s, i, d)
    BY <1>4, <1>5, DumpTrap
<1>7. /\ csr_changes' = d.changes /\ last_fflags' = d.last /\ stream' = d.stream
      /\ lines' = d.lines /\ shown' = d.shown /\ fflags' = new
      /\ truth' = truth \o [n \in DOMAIN is |-> [kind |-> is[n].kind,
                                                flags |-> IF Flagged(is[n]) THEN <<new>> ELSE <<>>]]
      /\ made' = made \o IF is[1].kind = "csr_trap" THEN <<>> ELSE reports.others
    BY <1>1, <1>4 DEF Commit
<1>8. made' = made \o <<>> /\ shown' = shown \o <<>>
  <2>1. shown \o <<>> = shown
      BY DEF LogIInv
  <2> QED BY <1>1, <1>3, <1>5, <1>6, <1>7, <2>1 DEF Reported
<1>9. Happened(i, new) \in Truth /\ Tells(Exception(i), Happened(i, new))
  <2>1. i.kind \in Kind
      BY DEF Fails, Kind
  <2>2. Happened(i, new) \in Truth
      BY <1>2, <2>1, HappenedTyped
  <2> QED BY <2>2 DEF Tells, Exception, Happened, Fails
<1>10. truth' = Append(truth, Happened(i, new))
  <2>1. [n \in DOMAIN is |-> [kind |-> is[n].kind, flags |-> IF Flagged(is[n]) THEN <<new>> ELSE <<>>]]
           = <<Happened(i, new)>>
      BY <1>1 DEF Happened, Flagged
  <2> QED BY <1>7, <1>9, <2>1, OneMore DEF LogIInv
<1>11. FlagsOnly(csr_changes')
  <2>1. CASE i.kind = "csr_trap"
      BY <1>6, <1>7, <2>1 DEF Reported, NoChange, FlagsOnly
  <2>2. CASE i.kind # "csr_trap"
    <3>1. csr_changes' = s.changes /\ s.changes.others = <<>>
        BY <1>3, <1>5, <1>6, <1>7, <2>2 DEF Reported
    <3> QED BY <1>5, <3>1 DEF FlagsOnly, LogState
  <2> QED BY <2>1, <2>2
<1>12. stream' = "open" /\ last_fflags' \in (SUBSET Flags) \union {Garbage} /\ fflags' \in SUBSET Flags
       /\ lines' = Append(lines, Exception(i)) /\ Exception(i) \in Line
    BY <1>2, <1>5, <1>6, <1>7 DEF Reported, LogIInv
<1>13. <<>> \in Seq(Change)
    OBVIOUS
<1> QED BY <1>8, <1>9, <1>10, <1>11, <1>12, <1>13, LogGrows

\* A cycle in which two instructions complete.
LEMMA TwoComplete ==
    ASSUME LogIInv, NEW i \in Pairable, NEW j \in Pairable, <<i, j>> \in Bundles,
           NEW status \in Status, Commit(<<i, j>>, status)
    PROVE  LogIInv'
<1>1. PICK is, new, reports : is = <<i, j>> /\ new = NewFlags(is) /\ reports = Reports(is, status, new)
    OBVIOUS
<1>2. /\ new \in SUBSET Flags
      /\ reports \in [fflags : Seq(SUBSET Flags), others : Seq(Change)]
      /\ (\E n \in DOMAIN is : is[n].kind = "fp") => reports.fflags = <<new>>
    BY <1>1, Reporting
<1>3. i.kind = "fp" \/ j.kind = "fp" => reports.fflags = <<new>>
    BY <1>1, <1>2
<1>4. /\ i.kind \in {"plain", "fp"} /\ j.kind \in {"plain", "fp"}
      /\ Completes(i) /\ Completes(j) /\ i.kind \in Kind /\ j.kind \in Kind
    BY Instructions DEF Completes, Kind
<1>5. PICK s, d, e : s = State(reports) /\ d = dump_file(s, i) /\ e = dump_file(d, j)
    OBVIOUS
<1>6. /\ s \in LogState /\ s.stream = "open" /\ s.last = last_fflags
      /\ s.changes.fflags = csr_changes.fflags \o reports.fflags
      /\ s.changes.others = reports.others
      /\ s.lines = lines /\ s.shown = shown
    BY <1>2, <1>5, Begins
<1>7. Finds(s, i, new) /\ (j.kind = "fp" => Ends(s.changes.fflags, new))
    BY <1>2, <1>3, <1>6, NewEnds DEF Finds, LogIInv, FlagsOnly
<1>8. Logged(s, i, new, d)
    BY <1>2, <1>4, <1>5, <1>6, <1>7, Committed
<1>9. d \in LogState /\ d.stream = "open" /\ Finds(d, j, new)
    BY <1>7, <1>8 DEF Logged, Finds
<1>10. Logged(d, j, new, e)
    BY <1>2, <1>4, <1>5, <1>9, Committed
<1>11. /\ csr_changes' = e.changes /\ last_fflags' = e.last /\ stream' = e.stream
       /\ lines' = e.lines /\ shown' = e.shown /\ fflags' = new
       /\ truth' = truth \o [n \in DOMAIN is |-> [kind |-> is[n].kind,
                                                 flags |-> IF Flagged(is[n]) THEN <<new>> ELSE <<>>]]
       /\ made' = made \o IF is[1].kind = "csr_trap" THEN <<>> ELSE reports.others
    BY <1>1, <1>5 DEF Commit
<1>12. made' = made \o reports.others
    BY <1>1, <1>4, <1>11
<1>13. /\ Happened(i, new) \in Truth /\ Printed(s, i) \in Line /\ Tells(Printed(s, i), Happened(i, new))
       /\ Happened(j, new) \in Truth /\ Printed(d, j) \in Line /\ Tells(Printed(d, j), Happened(j, new))
  <2>1. Happened(i, new) \in Truth /\ Happened(j, new) \in Truth
      BY <1>2, <1>4, HappenedTyped
  <2> QED BY <1>8, <1>10, <2>1 DEF Logged
<1>14. truth' = Append(Append(truth, Happened(i, new)), Happened(j, new))
  <2>1. [n \in DOMAIN is |-> [kind |-> is[n].kind, flags |-> IF Flagged(is[n]) THEN <<new>> ELSE <<>>]]
           = <<Happened(i, new), Happened(j, new)>>
      BY <1>1 DEF Happened, Flagged
  <2>2. truth \in Seq(Truth)
      BY DEF LogIInv
  <2> QED BY <1>11, <1>13, <2>1, <2>2, TwoMore
<1>15. FlagsOnly(csr_changes')
    BY <1>9, <1>10, <1>11, LeavesFlags
<1>16. stream' = "open" /\ last_fflags' \in (SUBSET Flags) \union {Garbage} /\ fflags' \in SUBSET Flags
       /\ lines' = Append(Append(lines, Printed(s, i)), Printed(d, j))
    BY <1>2, <1>6, <1>8, <1>10, <1>11 DEF Logged, LogState
<1>17. reports.others \in Seq(Change)
    BY <1>2
<1>18. shown' = shown \o reports.others
  <2>1. shown \o reports.others \in Seq(Change)
      BY <1>17 DEF LogIInv
  <2>2. d.shown = shown \o reports.others /\ d.changes.others = <<>>
      BY <1>6, <1>8 DEF Logged
  <2>3. d.shown \o <<>> = d.shown
      BY <2>1, <2>2
  <2> QED BY <1>10, <1>11, <2>2, <2>3 DEF Logged
<1> QED BY <1>12, <1>13, <1>14, <1>15, <1>16, <1>17, <1>18, LogGrows

\* The log tells the truth, for any number of commits and whichever registers are
\* written: every instruction has its line, which ends with the flags in force after
\* its cycle also when two share one report or a write of fflags is left in the list,
\* and every other CSR change is logged once and in order, none of a refused instruction.
THEOREM LogIsExact == LogSpec => []LogExact
<1>1. InitLog => LogIInv
  <2> SUFFICES ASSUME InitLog PROVE LogIInv
      OBVIOUS
  <2>1. lines \in Seq(Line) /\ truth \in Seq(Truth) /\ shown \in Seq(Change) /\ made = shown
      BY DEF InitLog
  <2>2. Len(lines) = 0 /\ Len(truth) = 0
      BY DEF InitLog
  <2>3. FlagsOnly(csr_changes) /\ stream = "open" /\ fflags \in SUBSET Flags
        /\ last_fflags \in (SUBSET Flags) \union {Garbage}
      BY DEF InitLog, FlagsOnly, NoChange
  <2> QED BY <2>1, <2>2, <2>3 DEF LogIInv
<1>2. LogIInv /\ [NextLog]_logVars => LogIInv'
  <2> SUFFICES ASSUME LogIInv, [NextLog]_logVars PROVE LogIInv'
      OBVIOUS
  <2>1. ASSUME NEW is \in Bundles, NEW status \in Status, Commit(is, status) PROVE LogIInv'
    <3>1. CASE \E i \in Pairable \union Alone : is = <<i>>
      <4>1. PICK i \in Pairable \union Alone : is = <<i>>
          BY <3>1
      <4>2. Completes(i) \/ Fails(i)
          BY Instructions DEF Completes, Fails
      <4>3. CASE Completes(i)
          BY <2>1, <4>1, <4>3, OneCompletes
      <4>4. CASE Fails(i)
          BY <2>1, <4>1, <4>4, OneFails
      <4> QED BY <4>2, <4>3, <4>4
    <3>2. CASE is \in Pairable \X Pairable
      <4>1. PICK i \in Pairable, j \in Pairable : is = <<i, j>>
          BY <3>2
      <4> QED BY <2>1, <4>1, TwoComplete
    <3> QED BY <3>1, <3>2 DEF Bundles
  <2>2. CASE UNCHANGED logVars
      BY <2>2 DEF logVars, LogIInv
  <2> QED BY <2>1, <2>2 DEF NextLog
<1>3. LogIInv => LogExact
  <2> SUFFICES ASSUME LogIInv PROVE LogExact
      OBVIOUS
  <2>1. LogTypeOK
    <3>1. csr_changes.fflags \in Seq(SUBSET Flags) /\ <<>> \in Seq(Change)
        BY DEF LogIInv, FlagsOnly
    <3>2. csr_changes \in [fflags : Seq(SUBSET Flags), others : Seq(Change)]
      <4>1. csr_changes = [fflags |-> csr_changes.fflags, others |-> <<>>]
          BY DEF LogIInv, FlagsOnly
      <4>2. PICK f, x : f = csr_changes.fflags /\ x = <<>>
          OBVIOUS
      <4>3. f \in Seq(SUBSET Flags) /\ x \in Seq(Change) /\ csr_changes = [fflags |-> f, others |-> x]
          BY <3>1, <4>1, <4>2
      <4> QED BY <4>3
    <3> QED BY <3>2 DEF LogIInv, LogTypeOK, Change
  <2>2. LinesComplete /\ FlagsCurrent
      BY DEF LogIInv, LinesComplete, FlagsCurrent, Tells, Ends
  <2> QED BY <2>1, <2>2 DEF LogIInv, LogExact, ChangesOnce
<1> QED BY <1>1, <1>2, <1>3, PTL DEF LogSpec

-----------------------------------------------------------------------------
\* The perfect memory.

\* The byte at an address, and a map in which every word is absent or whole.
Byte(m, a) == read(m, a \div 4)[a % 4]
Missing == <<"absent">>
Whole(m) == DOMAIN m = Words /\ \A w \in Words : m[w] = NoWord \/ \A b \in 0 .. 3 : m[w][b] # Missing
Present(data, mask) == \A b \in mask : data[b] # Missing

\* A byte that somebody has written is never the mark of an absent word.
LEMMA Tokens ==
    /\ Zero # Missing /\ Stray # Missing /\ Result # Missing
    /\ \A x, y : <<"file", x, y>> # Missing /\ <<"guest", x, y>> # Missing
<1>1. Zero[1] # Missing[1] /\ Stray[1] # Missing[1] /\ Result[1] # Missing[1]
    BY DEF Zero, Stray, Result, Missing
<1>2. \A x, y : <<"file", x, y>>[1] # Missing[1] /\ <<"guest", x, y>>[1] # Missing[1]
    BY DEF Missing
<1> QED BY <1>1, <1>2

\* What a word reads after a write, and that the others stay.
LEMMA Writes ==
    ASSUME NEW m, Whole(m), NEW w \in Words, NEW data, NEW mask, Present(data, mask),
           NEW m2, m2 = write(m, w, data, mask)
    PROVE  /\ Whole(m2)
           /\ \A b \in 0 .. 3 : read(m2, w)[b] = IF b \in mask THEN data[b] ELSE read(m, w)[b]
           /\ \A v \in Words : v # w => m2[v] = m[v]
<1>1. DOMAIN m = Words
    BY DEF Whole
<1>2. PICK x : x = [b \in 0 .. 3 |-> IF b \in mask THEN data[b] ELSE read(m, w)[b]]
    OBVIOUS
<1>3. DOMAIN m2 = Words /\ m2[w] = x /\ \A v \in Words : v # w => m2[v] = m[v]
    BY <1>1, <1>2 DEF write
<1>4. \A b \in 0 .. 3 : read(m, w)[b] # Missing
  <2>1. CASE m[w] = NoWord
      BY <2>1, Tokens DEF read, ZeroWord
  <2>2. CASE m[w] # NoWord
      BY <2>2 DEF read, Whole
  <2> QED BY <2>1, <2>2
<1>5. \A b \in 0 .. 3 : x[b] # Missing
    BY <1>2, <1>4 DEF Present
<1>6. x # NoWord
  <2>1. NoWord[0] = Missing /\ 0 \in 0 .. 3
      BY DEF NoWord, Missing
  <2> QED BY <1>5, <2>1
<1>7. Whole(m2)
    BY <1>3, <1>5 DEF Whole
<1> QED BY <1>2, <1>3, <1>6, <1>7 DEF read

\* The word of a byte and its place in it.
LEMMA Splits ==
    ASSUME NEW a \in Bytes
    PROVE  a \in Nat /\ a \div 4 \in Words /\ a % 4 \in 0 .. 3 /\ a = 4 * (a \div 4) + (a % 4)
BY MemoryAssumption DEF Bytes, Words

\* A write to a word, by bytes.
LEMMA WritesBytes ==
    ASSUME NEW m, Whole(m), NEW w \in Words, NEW data, NEW mask, Present(data, mask),
           NEW m2, m2 = write(m, w, data, mask), NEW a \in Bytes
    PROVE  Byte(m2, a) = IF a \div 4 = w /\ a % 4 \in mask THEN data[a % 4] ELSE Byte(m, a)
<1>1. /\ \A b \in 0 .. 3 : read(m2, w)[b] = IF b \in mask THEN data[b] ELSE read(m, w)[b]
      /\ \A v \in Words : v # w => m2[v] = m[v]
    BY Writes
<1>2. PICK v, b : v = a \div 4 /\ b = a % 4
    OBVIOUS
<1>3. v \in Words /\ b \in 0 .. 3
    BY <1>2, Splits
<1>4. read(m2, v)[b] = IF v = w /\ b \in mask THEN data[b] ELSE read(m, v)[b]
  <2>1. CASE v = w
      BY <1>1, <1>3, <2>1
  <2>2. CASE v # w
      BY <1>1, <1>3, <2>2 DEF read
  <2> QED BY <2>1, <2>2
<1> QED BY <1>2, <1>4 DEF Byte

\* The bytes that the three parts of write_block write.
InPrologue(a, addr, size) ==
    addr % 4 # 0 /\ a \div 4 = addr \div 4 /\ a % 4 \in PrologueMask(addr % 4, size)
InBlock(a, addr, size) ==
    a \div 4 >= First(addr, size) /\ a \div 4 < First(addr, size) + Rest(addr, size) \div 4
InEpilogue(a, addr, size) ==
    /\ Rest(addr, size) % 4 # 0 /\ a \div 4 = First(addr, size) + Rest(addr, size) \div 4
    /\ a % 4 \in EpilogueMask(Rest(addr, size) % 4)

\* They write every byte of the block and no byte before it.
LEMMA BlockCovered ==
    ASSUME NEW a \in Bytes, NEW addr \in Nat, NEW size \in Nat \ {0}
    PROVE  /\ a < addr => ~InPrologue(a, addr, size) /\ ~InBlock(a, addr, size) /\ ~InEpilogue(a, addr, size)
           /\ a \in addr .. addr + size - 1 =>
                 InPrologue(a, addr, size) \/ InBlock(a, addr, size) \/ InEpilogue(a, addr, size)
<1>1. PICK v, b, q, o : v = a \div 4 /\ b = a % 4 /\ q = addr \div 4 /\ o = addr % 4
    OBVIOUS
<1>2. /\ v \in Nat /\ b \in 0 .. 3 /\ a = 4 * v + b
      /\ q \in Nat /\ o \in 0 .. 3 /\ addr = 4 * q + o
    BY <1>1, Splits DEF Words
<1>3. CASE o = 0
  <2>1. Part(addr, size) = 0 /\ Rest(addr, size) = size /\ First(addr, size) = q
      BY <1>1, <1>2, <1>3 DEF Part, Rest, First
  <2>2. ~InPrologue(a, addr, size)
      BY <1>1, <1>3 DEF InPrologue
  <2>3. PICK t, r : t = size \div 4 /\ r = size % 4
      OBVIOUS
  <2>4. t \in Nat /\ r \in 0 .. 3 /\ size = 4 * t + r
      BY <2>3
  <2>5. InBlock(a, addr, size) <=> v >= q /\ v < q + t
      BY <1>1, <2>1, <2>3 DEF InBlock
  <2>6. InEpilogue(a, addr, size) <=> r # 0 /\ v = q + t /\ b < r
      BY <1>1, <1>2, <2>1, <2>3, <2>4 DEF InEpilogue, EpilogueMask
  <2> QED BY <1>2, <1>3, <2>2, <2>4, <2>5, <2>6
<1>4. CASE o # 0 /\ 4 - o > size
  <2>1. Part(addr, size) = size /\ Rest(addr, size) = 0
      BY <1>1, <1>2, <1>4 DEF Part, Rest
  <2>2. ~InBlock(a, addr, size) /\ ~InEpilogue(a, addr, size)
      BY <1>1, <1>2, <2>1 DEF InBlock, InEpilogue, First
  <2>3. PrologueMask(o, size) = {k + o : k \in 0 .. 3 - (4 - o - size)} \intersect 0 .. 3
      BY <1>2, <1>4 DEF PrologueMask
  <2>4. b \in PrologueMask(o, size) => b >= o
      BY <1>2, <2>3
  <2>5. b \in o .. o + size - 1 => b \in PrologueMask(o, size)
    <3>1. b \in o .. o + size - 1 => b - o \in 0 .. 3 - (4 - o - size) /\ b = (b - o) + o
        BY <1>2, <1>4
    <3> QED BY <1>2, <2>3, <3>1
  <2>6. InPrologue(a, addr, size) <=> v = q /\ b \in PrologueMask(o, size)
      BY <1>1, <1>4 DEF InPrologue
  <2> QED BY <1>2, <1>4, <2>2, <2>4, <2>5, <2>6
<1>5. CASE o # 0 /\ 4 - o <= size
  <2>1. Part(addr, size) = 4 - o /\ Rest(addr, size) = size - (4 - o) /\ First(addr, size) = q + 1
      BY <1>1, <1>2, <1>5 DEF Part, Rest, First
  <2>2. PICK t, r : t = (size - (4 - o)) \div 4 /\ r = (size - (4 - o)) % 4
      OBVIOUS
  <2>3. t \in Nat /\ r \in 0 .. 3 /\ size - (4 - o) = 4 * t + r
      BY <1>2, <1>5, <2>2
  <2>4. InBlock(a, addr, size) <=> v >= q + 1 /\ v < q + 1 + t
      BY <1>1, <2>1, <2>2 DEF InBlock
  <2>5. InEpilogue(a, addr, size) <=> r # 0 /\ v = q + 1 + t /\ b < r
      BY <1>1, <1>2, <2>1, <2>2, <2>3 DEF InEpilogue, EpilogueMask
  <2>6. PrologueMask(o, size) = {k + o : k \in 0 .. 3} \intersect 0 .. 3
    <3>1. ~(4 - o > size) /\ 3 - 0 = 3
        BY <1>2, <1>5
    <3> QED BY <3>1 DEF PrologueMask
  <2>7. b \in PrologueMask(o, size) <=> b >= o
    <3>1. b >= o => b - o \in 0 .. 3 /\ b = (b - o) + o
        BY <1>2
    <3> QED BY <1>2, <2>6, <3>1
  <2>8. InPrologue(a, addr, size) <=> v = q /\ b >= o
      BY <1>1, <1>5, <2>7 DEF InPrologue
  <2> QED BY <1>2, <1>5, <2>3, <2>4, <2>5, <2>8
<1> QED BY <1>2, <1>3, <1>4, <1>5

Filled(source, size) == \A k \in 0 .. size - 1 : source[k] # Missing

\* What write_block does to the bytes up to the end of the block.
Blocked(m, addr, size, source, m2) ==
    /\ Whole(m2)
    /\ \A a \in Bytes : a < addr => Byte(m2, a) = Byte(m, a)
    /\ \A a \in Bytes : a \in addr .. addr + size - 1 => Byte(m2, a) = source[a - addr]

\* A word of a block has all of its bytes, strays included.
LEMMA BlockWords ==
    ASSUME NEW addr \in Nat, NEW size \in Nat \ {0}, NEW source, Filled(source, size), NEW w \in Words,
           NEW mask, mask \subseteq 0 .. 3
    PROVE  Present(BlockWord(addr, size, source, w), mask)
<1> SUFFICES ASSUME NEW b \in mask PROVE BlockWord(addr, size, source, w)[b] # Missing
    BY DEF Present
<1>1. b \in 0 .. 3 /\ w \in Nat
    BY DEF Words
<1>2. 4 * w + b - addr \in Int
    BY <1>1
<1> QED BY <1>1, <1>2, Tokens DEF BlockWord, Buffer, Filled

\* A byte of the block in its word.
LEMMA BlockByte ==
    ASSUME NEW addr \in Nat, NEW size \in Nat \ {0}, NEW source, NEW a \in Bytes,
           a \in addr .. addr + size - 1
    PROVE  BlockWord(addr, size, source, a \div 4)[a % 4] = source[a - addr]
<1>1. PICK v, b : v = a \div 4 /\ b = a % 4
    OBVIOUS
<1>2. a \in Nat /\ v \in Words /\ v \in Nat /\ b \in 0 .. 3 /\ a = 4 * v + b
    BY <1>1, Splits DEF Words
<1>3. ~(4 * v + b < addr) /\ 4 * v + b - addr = a - addr /\ a - addr >= 0 /\ a - addr < size
    BY <1>2
<1>4. BlockWord(addr, size, source, v)[b] = source[a - addr]
    BY <1>2, <1>3 DEF BlockWord, Buffer
<1> QED BY <1>1, <1>4

\* The words that the prologue and the epilogue write are in memory.
LEMMA BlockPlaces ==
    ASSUME NEW addr \in Nat, NEW size \in Nat \ {0}, addr + size <= 4 * NWords
    PROVE  /\ addr \div 4 \in Words /\ addr % 4 \in 0 .. 3
           /\ Rest(addr, size) % 4 \in 0 .. 3
           /\ Rest(addr, size) % 4 # 0 => First(addr, size) + Rest(addr, size) \div 4 \in Words
<1>1. NWords \in Nat
    BY MemoryAssumption
<1>2. PICK q, o : q = addr \div 4 /\ o = addr % 4
    OBVIOUS
<1>3. q \in Nat /\ o \in 0 .. 3 /\ addr = 4 * q + o
    BY <1>2
<1>4. PICK p, f : p = Part(addr, size) /\ f = (addr + p) \div 4
    OBVIOUS
<1>5. p \in Nat /\ p <= size /\ (p < size => (addr + p) % 4 = 0)
    BY <1>2, <1>3, <1>4 DEF Part
<1>6. f \in Nat /\ f = First(addr, size) /\ (p < size => addr + p = 4 * f)
  <2>1. PICK g : g = addr + p
      OBVIOUS
  <2>2. g \in Nat /\ f = g \div 4 /\ (p < size => g % 4 = 0)
      BY <1>4, <1>5, <2>1
  <2>3. f \in Nat /\ (g % 4 = 0 => g = 4 * f)
      BY <2>2
  <2> QED BY <1>4, <2>1, <2>2, <2>3 DEF First
<1>7. PICK t, r : t = (size - p) \div 4 /\ r = (size - p) % 4
    OBVIOUS
<1>8. t \in Nat /\ r \in 0 .. 3 /\ size - p = 4 * t + r
    BY <1>5, <1>7
<1>9. Rest(addr, size) = size - p
    BY <1>4 DEF Rest
<1>10. r # 0 => f + t \in Words
    BY <1>1, <1>5, <1>6, <1>8 DEF Words
<1>11. q \in Words
    BY <1>1, <1>3 DEF Words
<1> QED BY <1>2, <1>3, <1>6, <1>7, <1>8, <1>9, <1>10, <1>11

\* What one of the three parts does to the bytes.
Puts(m, m2, addr, size, source, In(_, _, _)) ==
    /\ Whole(m2)
    /\ \A a \in Bytes : Byte(m2, a) = IF In(a, addr, size)
                                     THEN BlockWord(addr, size, source, a \div 4)[a % 4] ELSE Byte(m, a)

\* The prologue puts the bytes of its mask.
LEMMA PrologueWrites ==
    ASSUME NEW m, Whole(m), NEW addr \in Nat, NEW size \in Nat \ {0}, addr + size <= 4 * NWords,
           NEW source, Filled(source, size), NEW m2, m2 = Prologue(m, addr, size, source)
    PROVE  Puts(m, m2, addr, size, source, InPrologue)
<1>1. CASE addr % 4 = 0
    BY <1>1 DEF Puts, InPrologue, Prologue
<1>2. CASE addr % 4 # 0
  <2>1. PICK w, data, mask : /\ w = addr \div 4 /\ data = BlockWord(addr, size, source, w)
                             /\ mask = PrologueMask(addr % 4, size)
      OBVIOUS
  <2>2. w \in Words /\ m2 = write(m, w, data, mask)
      BY <1>2, <2>1, BlockPlaces DEF Prologue
  <2>3. mask \subseteq 0 .. 3
      BY <2>1 DEF PrologueMask
  <2>4. Present(data, mask)
      BY <2>1, <2>2, <2>3, BlockWords
  <2>5. Whole(m2)
      BY <2>2, <2>4, Writes
  <2>6. ASSUME NEW a \in Bytes
        PROVE  Byte(m2, a) = IF InPrologue(a, addr, size)
                             THEN BlockWord(addr, size, source, a \div 4)[a % 4] ELSE Byte(m, a)
    <3>1. Byte(m2, a) = IF a \div 4 = w /\ a % 4 \in mask THEN data[a % 4] ELSE Byte(m, a)
        BY <2>2, <2>4, WritesBytes
    <3> QED BY <1>2, <2>1, <3>1 DEF InPrologue
  <2> QED BY <2>5, <2>6 DEF Puts
<1> QED BY <1>1, <1>2

\* The epilogue puts the bytes of its mask.
LEMMA EpilogueWrites ==
    ASSUME NEW m, Whole(m), NEW addr \in Nat, NEW size \in Nat \ {0}, addr + size <= 4 * NWords,
           NEW source, Filled(source, size), NEW m2, m2 = Epilogue(m, addr, size, source)
    PROVE  Puts(m, m2, addr, size, source, InEpilogue)
<1>1. CASE Rest(addr, size) % 4 = 0
    BY <1>1 DEF Puts, InEpilogue, Epilogue
<1>2. CASE Rest(addr, size) % 4 # 0
  <2>1. PICK w, data, mask : /\ w = First(addr, size) + Rest(addr, size) \div 4
                             /\ data = BlockWord(addr, size, source, w)
                             /\ mask = EpilogueMask(Rest(addr, size) % 4)
      OBVIOUS
  <2>2. w \in Words /\ m2 = write(m, w, data, mask)
      BY <1>2, <2>1, BlockPlaces DEF Epilogue
  <2>3. mask \subseteq 0 .. 3
    <3>1. Rest(addr, size) % 4 \in 0 .. 3
        BY BlockPlaces
    <3> QED BY <2>1, <3>1 DEF EpilogueMask
  <2>4. Present(data, mask)
      BY <2>1, <2>2, <2>3, BlockWords
  <2>5. Whole(m2)
      BY <2>2, <2>4, Writes
  <2>6. ASSUME NEW a \in Bytes
        PROVE  Byte(m2, a) = IF InEpilogue(a, addr, size)
                             THEN BlockWord(addr, size, source, a \div 4)[a % 4] ELSE Byte(m, a)
    <3>1. Byte(m2, a) = IF a \div 4 = w /\ a % 4 \in mask THEN data[a % 4] ELSE Byte(m, a)
        BY <2>2, <2>4, WritesBytes
    <3> QED BY <1>2, <2>1, <3>1 DEF InEpilogue
  <2> QED BY <2>5, <2>6 DEF Puts
<1> QED BY <1>1, <1>2

\* The whole words of the block are put.
LEMMA BlockWrites ==
    ASSUME NEW m, Whole(m), NEW addr \in Nat, NEW size \in Nat \ {0},
           NEW source, Filled(source, size), NEW m2, m2 = Block(m, addr, size, source)
    PROVE  Puts(m, m2, addr, size, source, InBlock)
<1> DEFINE Inside(w) == w >= First(addr, size) /\ w < First(addr, size) + Rest(addr, size) \div 4
           D(w) == BlockWord(addr, size, source, w)
<1>1. m2 = [w \in Words |-> IF Inside(w) THEN write(m, w, D(w), 0 .. 3)[w] ELSE m[w]]
    BY DEF Block
<1> HIDE DEF Inside, D
<1>2. ASSUME NEW w \in Words
      PROVE  /\ m2[w] = NoWord \/ \A b \in 0 .. 3 : m2[w][b] # Missing
             /\ \A b \in 0 .. 3 : read(m2, w)[b] = IF Inside(w) THEN D(w)[b] ELSE read(m, w)[b]
  <2>1. CASE Inside(w)
    <3>1. PICK x, data, mask : x = write(m, w, data, mask) /\ data = D(w) /\ mask = 0 .. 3
        OBVIOUS
    <3>2. Present(data, mask)
        BY <3>1, BlockWords DEF D
    <3>3. Whole(x) /\ \A b \in 0 .. 3 : read(x, w)[b] = IF b \in mask THEN data[b] ELSE read(m, w)[b]
        BY <3>1, <3>2, Writes
    <3>4. m2[w] = x[w]
        BY <1>1, <2>1, <3>1
    <3>5. read(m2, w) = read(x, w)
        BY <3>4 DEF read
    <3> QED BY <2>1, <3>1, <3>3, <3>4, <3>5 DEF Whole
  <2>2. CASE ~Inside(w)
    <3>1. m2[w] = m[w]
        BY <1>1, <2>2
    <3> QED BY <2>2, <3>1 DEF Whole, read
  <2> QED BY <2>1, <2>2
<1>3. Whole(m2)
    BY <1>1, <1>2 DEF Whole
<1>4. ASSUME NEW a \in Bytes
      PROVE  Byte(m2, a) = IF InBlock(a, addr, size) THEN D(a \div 4)[a % 4] ELSE Byte(m, a)
  <2>1. a \div 4 \in Words /\ a % 4 \in 0 .. 3
      BY Splits
  <2>2. read(m2, a \div 4)[a % 4] = IF Inside(a \div 4) THEN D(a \div 4)[a % 4] ELSE read(m, a \div 4)[a % 4]
      BY <1>2, <2>1
  <2> QED BY <2>2 DEF InBlock, Inside, Byte
<1> QED BY <1>3, <1>4 DEF Puts, D

\* write_block puts the block, and changes nothing before it.
LEMMA WriteBlock ==
    ASSUME NEW m, Whole(m), NEW addr \in Nat, NEW size \in Nat \ {0}, addr + size <= 4 * NWords,
           NEW source, Filled(source, size), NEW m2, m2 = write_block(m, addr, size, source)
    PROVE  Blocked(m, addr, size, source, m2)
<1>1. PICK p, k : p = Prologue(m, addr, size, source) /\ k = Block(p, addr, size, source)
    OBVIOUS
<1>2. m2 = Epilogue(k, addr, size, source)
    BY <1>1 DEF write_block
<1>3. Puts(m, p, addr, size, source, InPrologue)
    BY <1>1, PrologueWrites
<1>4. Whole(p)
    BY <1>3 DEF Puts
<1>5. Puts(p, k, addr, size, source, InBlock)
    BY <1>1, <1>4, BlockWrites
<1>6. Whole(k)
    BY <1>5 DEF Puts
<1>7. Puts(k, m2, addr, size, source, InEpilogue)
    BY <1>2, <1>6, EpilogueWrites
<1>8. Whole(m2)
    BY <1>7 DEF Puts
<1>9. ASSUME NEW a \in Bytes
      PROVE  /\ a < addr => Byte(m2, a) = Byte(m, a)
             /\ a \in addr .. addr + size - 1 => Byte(m2, a) = source[a - addr]
  <2>1. Byte(m2, a) = IF InPrologue(a, addr, size) \/ InBlock(a, addr, size) \/ InEpilogue(a, addr, size)
                      THEN BlockWord(addr, size, source, a \div 4)[a % 4] ELSE Byte(m, a)
      BY <1>3, <1>5, <1>7 DEF Puts
  <2> QED BY <2>1, BlockCovered, BlockByte
<1> QED BY <1>8, <1>9 DEF Blocked

\* Nothing is defined at or behind a header that is still to be loaded.
Ahead == \A k \in 1 .. Len(todo) : \A a \in Bytes : a >= todo[k].paddr => ref[a] = Undefined

MemoryIInv == Whole(mem) /\ Headers(todo) /\ Ahead /\ MemoryExact /\ HostExact

\* MemoryExact by bytes.
LEMMA ExactIs == MemoryExact <=> \A a \in Bytes : ref[a] # Undefined => Byte(mem, a) = ref[a]
BY DEF MemoryExact, Byte

\* The contents of a segment and its zeros are bytes.
LEMMA FilledIs ==
    ASSUME NEW s
    PROVE  /\ Filled([i \in 0 .. s.filesz - 1 |-> Wanted(s, s.paddr + i)], s.filesz)
           /\ Filled([i \in 0 .. s.memsz - s.filesz - 1 |-> Zero], s.memsz - s.filesz)
BY Tokens DEF Filled, Wanted

\* A header is loaded: what it writes behind its end is behind every byte that is
\* defined, since the headers ascend.
LEMMA LoadInv == ASSUME MemoryIInv, load PROVE MemoryIInv'
<1>1. PICK s : s = Head(todo)
    OBVIOUS
<1>2. /\ todo # <<>> /\ todo' = Tail(todo) /\ out' = out
      /\ ref' = [a \in Bytes |-> IF a \in Segment(s) THEN Wanted(s, a) ELSE ref[a]]
    BY <1>1 DEF load
<1>3. PICK m1 : m1 = IF s.filesz > 0
                     THEN write_block(mem, s.paddr, s.filesz,
                                      [i \in 0 .. s.filesz - 1 |-> Wanted(s, s.paddr + i)])
                     ELSE mem
    OBVIOUS
<1>4. mem' = IF s.memsz > s.filesz
             THEN write_block(m1, s.paddr + s.filesz, s.memsz - s.filesz,
                              [i \in 0 .. s.memsz - s.filesz - 1 |-> Zero])
             ELSE m1
    BY <1>1, <1>3 DEF load
<1>5. /\ todo \in Seq(Header) /\ Len(todo) >= 1 /\ s = todo[1]
      /\ \A k \in 1 .. Len(todo) - 1 : todo'[k] = todo[k + 1]
      /\ todo' \in Seq(Header) /\ Len(todo') = Len(todo) - 1
    BY <1>1, <1>2 DEF MemoryIInv, Headers
<1>6. /\ s.paddr \in Nat /\ s.filesz \in Nat /\ s.memsz \in Nat /\ s.filesz <= s.memsz
      /\ s.paddr + s.memsz <= 4 * NWords /\ NWords \in Nat
      /\ \A k \in 2 .. Len(todo) : s.paddr + s.memsz <= todo[k].paddr
  <2>1. s \in Header /\ 1 \in 1 .. Len(todo) /\ Len(todo) \in Nat
      BY <1>5
  <2>2. s.paddr \in Nat /\ s.filesz \in Nat /\ s.memsz \in Nat
      BY <2>1 DEF Header
  <2>3. s.filesz <= s.memsz /\ s.paddr + s.memsz <= 4 * NWords
      BY <1>5, <2>1 DEF MemoryIInv, Headers
  <2>4. ASSUME NEW k \in 2 .. Len(todo) PROVE s.paddr + s.memsz <= todo[k].paddr
    <3>1. k \in 1 .. Len(todo) /\ 1 < k
        BY <2>1
    <3> QED BY <1>5, <2>1, <3>1 DEF MemoryIInv, Headers
  <2> QED BY <2>2, <2>3, <2>4, MemoryAssumption
<1>7. Headers(todo')
  <2>1. \A i \in 1 .. Len(todo') : i + 1 \in 1 .. Len(todo) /\ todo'[i] = todo[i + 1]
      BY <1>5
  <2>2. \A i \in 1 .. Len(todo') : todo'[i].filesz <= todo'[i].memsz
                                  /\ todo'[i].paddr + todo'[i].memsz <= 4 * NWords
      BY <2>1 DEF MemoryIInv, Headers
  <2>3. ASSUME NEW i \in 1 .. Len(todo'), NEW j \in 1 .. Len(todo'), i < j
        PROVE  todo'[i].paddr + todo'[i].memsz <= todo'[j].paddr
    <3>1. i + 1 < j + 1
        BY <2>3
    <3> QED BY <2>1, <3>1 DEF MemoryIInv, Headers
  <2> QED BY <1>5, <2>2, <2>3 DEF Headers
<1>8. /\ Whole(m1)
      /\ \A a \in Bytes : a < s.paddr => Byte(m1, a) = Byte(mem, a)
      /\ \A a \in Bytes : a \in s.paddr .. s.paddr + s.filesz - 1 => Byte(m1, a) = Wanted(s, a)
  <2>1. CASE s.filesz > 0
    <3>1. PICK source : source = [i \in 0 .. s.filesz - 1 |-> Wanted(s, s.paddr + i)]
        OBVIOUS
    <3>2. Filled(source, s.filesz)
        BY <3>1, FilledIs
    <3>3. m1 = write_block(mem, s.paddr, s.filesz, source)
        BY <1>3, <2>1, <3>1
    <3>4. s.filesz \in Nat \ {0} /\ s.paddr + s.filesz <= 4 * NWords
        BY <1>6, <2>1
    <3>5. Blocked(mem, s.paddr, s.filesz, source, m1)
        BY <1>6, <3>2, <3>3, <3>4, WriteBlock DEF MemoryIInv
    <3>6. \A a \in Bytes : a \in s.paddr .. s.paddr + s.filesz - 1 => source[a - s.paddr] = Wanted(s, a)
      <4> SUFFICES ASSUME NEW a \in Bytes, a \in s.paddr .. s.paddr + s.filesz - 1
                   PROVE  source[a - s.paddr] = Wanted(s, a)
          OBVIOUS
      <4>1. a - s.paddr \in 0 .. s.filesz - 1 /\ s.paddr + (a - s.paddr) = a
          BY <1>6
      <4> QED BY <3>1, <4>1
    <3> QED BY <3>5, <3>6 DEF Blocked
  <2>2. CASE s.filesz = 0
      BY <1>3, <1>6, <2>2 DEF MemoryIInv
  <2> QED BY <1>6, <2>1, <2>2
<1>9. /\ Whole(mem')
      /\ \A a \in Bytes : a < s.paddr => Byte(mem', a) = Byte(mem, a)
      /\ \A a \in Bytes : a \in s.paddr .. s.paddr + s.memsz - 1 => Byte(mem', a) = Wanted(s, a)
  <2>1. CASE s.memsz > s.filesz
    <3>1. PICK addr, size, source : /\ addr = s.paddr + s.filesz /\ size = s.memsz - s.filesz
                                    /\ source = [i \in 0 .. size - 1 |-> Zero]
        OBVIOUS
    <3>2. Filled(source, size)
        BY <3>1, FilledIs
    <3>3. PICK m2 : m2 = mem'
        OBVIOUS
    <3>4. m2 = write_block(m1, addr, size, source)
        BY <1>4, <2>1, <3>1, <3>3
    <3>5. addr \in Nat /\ size \in Nat \ {0} /\ addr + size = s.paddr + s.memsz
      <4>1. PICK x, y, z : x = s.paddr /\ y = s.filesz /\ z = s.memsz
          OBVIOUS
      <4>2. x \in Nat /\ y \in Nat /\ z \in Nat /\ z > y /\ addr = x + y /\ size = z - y
          BY <1>6, <2>1, <3>1, <4>1
      <4>3. addr \in Nat /\ size \in Nat \ {0} /\ addr + size = x + z
          BY <4>2
      <4> QED BY <4>1, <4>3
    <3>6. Blocked(m1, addr, size, source, m2)
        BY <1>6, <1>8, <3>2, <3>4, <3>5, WriteBlock
    <3>7. \A a \in Bytes : a \in addr .. addr + size - 1 => Byte(m2, a) = Wanted(s, a)
      <4> SUFFICES ASSUME NEW a \in Bytes, a \in addr .. addr + size - 1 PROVE Byte(m2, a) = Wanted(s, a)
          OBVIOUS
      <4>1. a - addr \in 0 .. size - 1 /\ ~(a < s.paddr + s.filesz)
        <5>1. a - addr \in 0 .. size - 1 /\ ~(a < addr)
            BY <3>5
        <5> QED BY <3>1, <5>1
      <4>2. Byte(m2, a) = source[a - addr]
          BY <3>6 DEF Blocked
      <4> QED BY <3>1, <4>1, <4>2 DEF Wanted
    <3>8. \A a \in Bytes : a < addr => Byte(m2, a) = Byte(m1, a)
        BY <3>6 DEF Blocked
    <3>9. \A a \in Bytes : a \in Nat
        BY Splits
    <3>10. ASSUME NEW a \in Bytes
           PROVE  /\ a < s.paddr => Byte(m2, a) = Byte(mem, a)
                  /\ a \in s.paddr .. s.paddr + s.memsz - 1 => Byte(m2, a) = Wanted(s, a)
      <4>1. PICK x, y : x = s.paddr /\ y = s.memsz
          OBVIOUS
      <4>2. x \in Nat /\ y \in Nat /\ x <= addr /\ addr + size = x + y /\ a \in Nat
          BY <1>6, <3>1, <3>5, <3>9, <4>1
      <4>3. a < x => a < addr
          BY <3>5, <4>2
      <4>4. a \in x .. x + y - 1 => a \in x .. addr - 1 \/ a \in addr .. addr + size - 1
          BY <3>5, <4>2
      <4>5. a \in x .. addr - 1 => a < addr
          BY <3>5, <4>2
      <4>6. a \in x .. addr - 1 => Byte(m1, a) = Wanted(s, a)
        <5>1. a \in x .. addr - 1 => a \in s.paddr .. s.paddr + s.filesz - 1
          <6>1. PICK z : z = s.filesz
              OBVIOUS
          <6>2. x \in Nat /\ z \in Nat /\ addr = x + z
              BY <1>6, <3>1, <4>1, <6>1
          <6>3. addr - 1 = x + (z - 1)
              BY <6>2
          <6> QED BY <4>1, <6>1, <6>3
        <5> QED BY <1>8, <5>1
      <4>7. a < x => Byte(m1, a) = Byte(mem, a)
          BY <1>8, <4>1
      <4>8. /\ a < x => Byte(m2, a) = Byte(mem, a)
            /\ a \in x .. x + y - 1 => Byte(m2, a) = Wanted(s, a)
          BY <3>7, <3>8, <4>3, <4>4, <4>5, <4>6, <4>7
      <4> QED BY <4>1, <4>8
    <3>11. Whole(m2)
        BY <3>6 DEF Blocked
    <3> QED BY <3>3, <3>10, <3>11
  <2>2. CASE s.memsz = s.filesz
      BY <1>4, <1>6, <1>8, <2>2
  <2> QED BY <1>6, <2>1, <2>2
<1>10. ASSUME NEW a \in Bytes, ref'[a] # Undefined PROVE Byte(mem', a) = ref'[a]
  <2>1. a \in Nat
      BY Splits
  <2>2. CASE a \in s.paddr .. s.paddr + s.memsz - 1
      BY <1>2, <1>9, <2>2 DEF Segment
  <2>3. CASE a < s.paddr
    <3>1. ref'[a] = ref[a]
        BY <1>2, <1>6, <2>1, <2>3 DEF Segment
    <3>2. Byte(mem, a) = ref[a]
        BY <1>10, <3>1, ExactIs DEF MemoryIInv
    <3> QED BY <1>9, <2>3, <3>1, <3>2
  <2>4. CASE a >= s.paddr + s.memsz
    <3>1. ref'[a] = ref[a]
        BY <1>2, <1>6, <2>1, <2>4 DEF Segment
    <3>2. a >= todo[1].paddr /\ 1 \in 1 .. Len(todo)
        BY <1>5, <1>6, <2>1, <2>4
    <3>3. ref[a] = Undefined
        BY <3>2 DEF MemoryIInv, Ahead
    <3> QED BY <1>10, <3>1, <3>3
  <2> QED BY <1>6, <2>1, <2>2, <2>3, <2>4
<1>11. MemoryExact'
    BY <1>10 DEF MemoryExact, Byte
<1>12. Ahead'
  <2> SUFFICES ASSUME NEW k \in 1 .. Len(todo'), NEW a \in Bytes, a >= todo'[k].paddr
               PROVE  ref'[a] = Undefined
      BY DEF Ahead
  <2>1. k + 1 \in 2 .. Len(todo) /\ todo'[k] = todo[k + 1] /\ k + 1 \in 1 .. Len(todo)
      BY <1>5
  <2>2. a \in Nat /\ todo[k + 1].paddr \in Nat
    <3>1. todo[k + 1] \in Header
        BY <1>5, <2>1
    <3> QED BY <3>1, Splits DEF Header
  <2>3. a >= s.paddr + s.memsz
      BY <1>6, <2>1, <2>2
  <2>4. ref'[a] = ref[a]
      BY <1>2, <1>6, <2>2, <2>3 DEF Segment
  <2>5. ref[a] = Undefined
      BY <2>1 DEF MemoryIInv, Ahead
  <2> QED BY <2>4, <2>5
<1>13. HostExact'
    BY <1>2 DEF MemoryIInv, HostExact
<1> QED BY <1>7, <1>9, <1>11, <1>12, <1>13 DEF MemoryIInv

\* Quotient and remainder are unique.
LEMMA Quotients ==
    ASSUME NEW n \in Nat \ {0}, NEW q \in Nat, NEW r \in Nat, r < n, NEW x, x = n * q + r
    PROVE  x \div n = q /\ x % n = r
<1>1. x \in Nat
    BY Z3
<1>2. PICK d, e : d = x \div n /\ e = x % n
    OBVIOUS
<1>3. d \in Nat /\ e \in Nat /\ e < n /\ x = n * d + e
    BY <1>1, <1>2
<1>4. n * (d - q) = r - e
    BY <1>3
<1>5. ~(d >= q + 1)
    BY <1>3, <1>4
<1>6. ~(d + 1 <= q)
    BY <1>3, <1>4
<1> QED BY <1>2, <1>3, <1>5, <1>6

\* The bus line of a byte, and its place there, by the word that holds it.
LEMMA LineParts ==
    ASSUME NEW a \in Bytes
    PROVE  /\ a \div LineBytes = (a \div 4) \div LineWords
           /\ a % LineBytes = 4 * ((a \div 4) % LineWords) + (a % 4)
<1>1. PICK n, w, b : n = LineWords /\ w = a \div 4 /\ b = a % 4
    OBVIOUS
<1>2. n \in Nat \ {0} /\ w \in Nat /\ b \in 0 .. 3 /\ a = 4 * w + b
    BY <1>1, Splits, MemoryAssumption DEF Words
<1>3. PICK l, i : l = w \div n /\ i = w % n
    OBVIOUS
<1>4. l \in Nat /\ i \in Nat /\ i < n /\ w = n * l + i
    BY <1>2, <1>3
<1>5. 4 * n \in Nat \ {0} /\ 4 * i + b \in Nat /\ 4 * i + b < 4 * n
    BY <1>2, <1>4
<1>6. a = (4 * n) * l + (4 * i + b)
    BY <1>2, <1>4
<1>7. PICK N, r : N = 4 * n /\ r = 4 * i + b
    OBVIOUS
<1>8. a \div N = l /\ a % N = r
    BY <1>4, <1>5, <1>6, <1>7, Quotients
<1>9. N = LineBytes
    BY <1>1, <1>7 DEF LineBytes
<1> QED BY <1>1, <1>3, <1>7, <1>8, <1>9

\* A store of the guest writes the enabled bytes of its line.
LEMMA StoreInv == ASSUME MemoryIInv, NEW l \in MemLines, NEW be, memory_write(l, be) PROVE MemoryIInv'
<1> DEFINE masked(w) == WordMask(be, w % LineWords)
           Hit(w) == w \div LineWords = l /\ masked(w) # {}
           D(w) == [b \in 0 .. 3 |-> <<"guest", stores, 4 * w + b>>]
<1>1. /\ todo = <<>> /\ todo' = todo /\ out' = NoCall
      /\ mem' = [w \in Words |-> IF Hit(w) THEN write(mem, w, D(w), masked(w))[w] ELSE mem[w]]
      /\ ref' = [a \in Bytes |-> IF a \div LineBytes = l /\ a % LineBytes \in be
                                 THEN <<"guest", stores, a>> ELSE ref[a]]
    BY DEF memory_write, Runs
<1>2. \A w : masked(w) \subseteq 0 .. 3
    BY DEF WordMask
<1>3. ASSUME NEW w \in Words PROVE Present(D(w), masked(w))
    BY <1>2, Tokens DEF Present
<1> HIDE DEF D, Hit
<1>4. ASSUME NEW w \in Words
      PROVE  /\ mem'[w] = NoWord \/ \A b \in 0 .. 3 : mem'[w][b] # Missing
             /\ \A b \in 0 .. 3 : read(mem', w)[b] = IF Hit(w) /\ b \in masked(w)
                                                    THEN D(w)[b] ELSE read(mem, w)[b]
  <2>1. CASE Hit(w)
    <3>1. PICK x, data, mask : x = write(mem, w, data, mask) /\ data = D(w) /\ mask = masked(w)
        OBVIOUS
    <3>2. Present(data, mask)
        BY <1>3, <3>1
    <3>3. Whole(x) /\ \A b \in 0 .. 3 : read(x, w)[b] = IF b \in mask THEN data[b] ELSE read(mem, w)[b]
        BY <3>1, <3>2, Writes DEF MemoryIInv
    <3>4. mem'[w] = x[w]
        BY <1>1, <2>1, <3>1
    <3>5. read(mem', w) = read(x, w)
        BY <3>4 DEF read
    <3> QED BY <2>1, <3>1, <3>3, <3>4, <3>5 DEF Whole
  <2>2. CASE ~Hit(w)
    <3>1. mem'[w] = mem[w]
        BY <1>1, <2>2
    <3> QED BY <2>2, <3>1 DEF MemoryIInv, Whole, read
  <2> QED BY <2>1, <2>2
<1>5. Whole(mem')
    BY <1>1, <1>4 DEF Whole
<1>6. ASSUME NEW a \in Bytes, ref'[a] # Undefined PROVE Byte(mem', a) = ref'[a]
  <2>1. PICK w, b : w = a \div 4 /\ b = a % 4
      OBVIOUS
  <2>2. w \in Words /\ b \in 0 .. 3 /\ a = 4 * w + b
      BY <2>1, Splits
  <2>3. Byte(mem', a) = IF Hit(w) /\ b \in masked(w) THEN D(w)[b] ELSE Byte(mem, a)
      BY <1>4, <2>1, <2>2 DEF Byte
  <2>4. D(w)[b] = <<"guest", stores, a>>
      BY <2>2 DEF D
  <2>5. a \div LineBytes = w \div LineWords /\ a % LineBytes = 4 * (w % LineWords) + b
      BY <2>1, LineParts
  <2>6. (Hit(w) /\ b \in masked(w)) <=> (a \div LineBytes = l /\ a % LineBytes \in be)
      BY <2>2, <2>5 DEF Hit, WordMask
  <2>7. ref'[a] = IF Hit(w) /\ b \in masked(w) THEN <<"guest", stores, a>> ELSE ref[a]
      BY <1>1, <2>6
  <2>8. ref[a] # Undefined => Byte(mem, a) = ref[a]
      BY ExactIs DEF MemoryIInv
  <2> QED BY <1>6, <2>3, <2>4, <2>7, <2>8
<1>7. MemoryExact'
    BY <1>6 DEF MemoryExact, Byte
<1>8. Ahead' /\ Headers(todo')
    BY <1>1 DEF MemoryIInv, Ahead
<1>9. HostExact'
    BY <1>1 DEF HostExact, NoCall
<1> QED BY <1>5, <1>7, <1>8, <1>9 DEF MemoryIInv

\* The host reads the byte at the address it wants.
LEMMA HostBytes ==
    ASSUME NEW ptr \in Nat, ptr % 4 = 0, NEW i \in Nat
    PROVE  HostByte(ptr, i) = Byte(mem, ptr + i)
<1>1. PICK q, v, b, a : q = ptr \div 4 /\ v = i \div 4 /\ b = i % 4 /\ a = ptr + i
    OBVIOUS
<1>2. q \in Nat /\ ptr = 4 * q /\ v \in Nat /\ b \in 0 .. 3 /\ i = 4 * v + b
    BY <1>1
<1>3. (ptr + 4 * v) \div 4 = q + v
    BY <1>2
<1>4. a = 4 * (q + v) + b
    BY <1>1, <1>2
<1>5. a \div 4 = q + v /\ a % 4 = b
    BY <1>2, <1>4
<1>6. HostByte(ptr, i) = read(mem, q + v)[b]
    BY <1>1, <1>3 DEF HostByte
<1>7. Byte(mem, a) = read(mem, q + v)[b]
    BY <1>5 DEF Byte
<1> QED BY <1>1, <1>6, <1>7

\* A call of the host reads the buffer and answers at fromhost.
LEMMA HostInv ==
    ASSUME MemoryIInv, NEW ptr \in Bytes, NEW length \in Nat, ptr + length <= 4 * NWords,
           tohost(ptr, length)
    PROVE  MemoryIInv'
<1>1. todo = <<>> /\ todo' = todo
    BY DEF tohost, Runs
<1>2. Ahead' /\ Headers(todo')
    BY <1>1 DEF MemoryIInv, Ahead
<1>3. CASE length > 0 /\ ptr % 4 # 0
  <2>1. mem' = mem /\ ref' = ref /\ out' = NoCall
      BY <1>3 DEF tohost
  <2>2. HostExact'
      BY <2>1 DEF HostExact, NoCall
  <2>3. MemoryExact' /\ Whole(mem')
      BY <2>1 DEF MemoryIInv, MemoryExact
  <2> QED BY <1>2, <2>2, <2>3 DEF MemoryIInv
<1>4. CASE ~(length > 0 /\ ptr % 4 # 0)
  <2>1. PICK word, mask, m1, m2 : /\ word = [b \in 0 .. 3 |-> Result] /\ mask = 0 .. 3
                                  /\ m1 = write(mem, FromHost, word, mask)
                                  /\ m2 = write(m1, FromHost + 1, word, mask)
      OBVIOUS
  <2>2. mem' = m2
      BY <1>4, <2>1 DEF tohost
  <2>3. out' = [bytes |-> [i \in 1 .. length |-> HostByte(ptr, i - 1)],
                wanted |-> [i \in 1 .. length |-> ref[ptr + i - 1]]]
      BY <1>4 DEF tohost
  <2>4. ref' = [a \in Bytes |-> IF a \div 4 \in {FromHost, FromHost + 1} THEN Result ELSE ref[a]]
      BY <1>4 DEF tohost
  <2>5. FromHost \in Words /\ FromHost + 1 \in Words
      BY MemoryAssumption DEF Words
  <2>6. Present(word, mask)
      BY <2>1, Tokens DEF Present
  <2>7. Whole(m1)
      BY <2>1, <2>5, <2>6, Writes DEF MemoryIInv
  <2>8. Whole(m2)
      BY <2>1, <2>5, <2>6, <2>7, Writes
  <2>9. ASSUME NEW a \in Bytes, ref'[a] # Undefined PROVE Byte(m2, a) = ref'[a]
    <3>1. a % 4 \in mask
        BY <2>1, Splits
    <3>2. word[a % 4] = Result
        BY <2>1, <3>1
    <3>3. Byte(m1, a) = IF a \div 4 = FromHost /\ a % 4 \in mask THEN word[a % 4] ELSE Byte(mem, a)
        BY <2>1, <2>5, <2>6, WritesBytes DEF MemoryIInv
    <3>4. Byte(m2, a) = IF a \div 4 = FromHost + 1 /\ a % 4 \in mask THEN word[a % 4] ELSE Byte(m1, a)
        BY <2>1, <2>5, <2>6, <2>7, WritesBytes
    <3>5. ref[a] # Undefined => Byte(mem, a) = ref[a]
        BY ExactIs DEF MemoryIInv
    <3> QED BY <2>4, <2>9, <3>1, <3>2, <3>3, <3>4, <3>5
  <2>10. MemoryExact'
      BY <2>2, <2>9 DEF MemoryExact, Byte
  <2>11. HostExact'
    <3> SUFFICES ASSUME NEW i \in 1 .. length, ref[ptr + i - 1] # Undefined
                 PROVE  HostByte(ptr, i - 1) = ref[ptr + i - 1]
        BY <2>3 DEF HostExact
    <3>1. ptr \in Nat /\ i - 1 \in Nat /\ ptr % 4 = 0 /\ ptr + (i - 1) \in Bytes
        BY <1>4, MemoryAssumption DEF Bytes
    <3>2. HostByte(ptr, i - 1) = Byte(mem, ptr + (i - 1))
        BY <3>1, HostBytes
    <3>3. Byte(mem, ptr + (i - 1)) = ref[ptr + (i - 1)]
        BY <3>1, ExactIs DEF MemoryIInv
    <3> QED BY <3>2, <3>3
  <2> QED BY <1>2, <2>2, <2>8, <2>10, <2>11 DEF MemoryIInv
<1> QED BY <1>3, <1>4

\* What the file, the guest and the host put into memory is what is read back, for
\* every size of the memory and of a line, every file whose headers ascend without
\* overlap, and any number of stores and calls: the stray bytes that the prologue of
\* write_block leaves behind a short block are never at an address that is defined, and
\* the host writes the bytes of the guest's buffer.
THEOREM MemoryIsExact ==
    ASSUME NEW lists, \A l \in lists : Headers(l)
    PROVE  MemorySpec(lists) => []MemoryInv
<1>1. InitMemory(lists) => MemoryIInv
  <2> SUFFICES ASSUME InitMemory(lists) PROVE MemoryIInv
      OBVIOUS
  <2>1. Whole(mem)
      BY DEF InitMemory, Whole
  <2>2. Headers(todo)
      BY DEF InitMemory
  <2>3. Ahead
      BY DEF InitMemory, Ahead
  <2>4. MemoryExact /\ HostExact
      BY DEF InitMemory, MemoryExact, HostExact, NoCall
  <2> QED BY <2>1, <2>2, <2>3, <2>4 DEF MemoryIInv
<1>2. MemoryIInv /\ [NextMemory]_memoryVars => MemoryIInv'
  <2> SUFFICES ASSUME MemoryIInv, [NextMemory]_memoryVars PROVE MemoryIInv'
      OBVIOUS
  <2>1. CASE load
      BY <2>1, LoadInv
  <2>2. CASE \E l \in MemLines, be \in Enables : memory_write(l, be)
      BY <2>2, StoreInv
  <2>3. CASE \E ptr \in Bytes, length \in 0 .. MaxLength :
                ptr + length <= 4 * NWords /\ tohost(ptr, length)
    <3>1. PICK ptr \in Bytes, length \in 0 .. MaxLength :
                ptr + length <= 4 * NWords /\ tohost(ptr, length)
        BY <2>3
    <3>2. length \in Nat
        BY MemoryAssumption
    <3> QED BY <3>1, <3>2, HostInv
  <2>4. CASE UNCHANGED memoryVars
      BY <2>4 DEF memoryVars, MemoryIInv, Ahead, MemoryExact, HostExact
  <2> QED BY <2>1, <2>2, <2>3, <2>4 DEF NextMemory
<1>3. MemoryIInv => MemoryInv
    BY DEF MemoryIInv, MemoryInv
<1> QED BY <1>1, <1>2, <1>3, PTL DEF MemorySpec
=============================================================================
