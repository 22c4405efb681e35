----------------------------- MODULE Checkpoint -----------------------------
(***************************************************************************)
(* Checkpoints of the Verilator simulation: save_model, restore_model and  *)
(* main of dpi_checkpoint.cpp, the serialisation of dpi_checkpoint.h and   *)
(* the block of sim_top.sv that saves into two files in turn.  A process   *)
(* may be killed at any time, also between two writes of a file, and be    *)
(* started again from a complete file, with any program as +load.          *)
(***************************************************************************)
EXTENDS Naturals, FiniteSets

CONSTANTS Programs,           \* ELF files, by name
          checkpoint_cycles,  \* cycles from one checkpoint to the next
          MaxCycles,          \* bound: cycles simulated
          MaxSaves,           \* bound: checkpoints begun
          MaxStarts           \* bound: processes started

ASSUME CheckpointAssumption ==
    /\ checkpoint_cycles \in Nat \ {0}
    /\ MaxCycles \in Nat /\ MaxSaves \in Nat /\ MaxStarts \in Nat

NoProgram == "none"
Files == {1, 2}

VARIABLES proc,       \* "down", "running", "saving"
          time,       \* contextp->time()
          model,      \* *topp: clock, reset, cycles, checkpointFile1, tohost_addr
          contents,   \* memoryContents: <<program, address>> of every word in the map
          symbols,    \* the program that symbols and reverseSymbols describe
          fromhostAddr, \* the static of dpi_host.cpp: the program whose address it is
          file,       \* the two files
          writing,    \* while saving: the file that is open
          saves, starts,
          restored,   \* history: whether this process began from a checkpoint
          wrote       \* history: checkpoints completed by this process

checkpointVars == <<proc, time, model, contents, symbols, fromhostAddr, file, writing, saves,
          starts, restored, wrote>>

Absent == [state |-> "absent"]
Partial == [state |-> "partial"]
Complete == {f \in Files : file[f].state = "complete"}

\* memory_init: a fresh map with the words of the program, and its symbols.
\* Word 0 is in every image, word 1 is written while the program runs, word 2
\* is in the image of this program only.
Image(p) == {<<p, 0>>, <<p, 2>>}

InitCheckpoint ==
    /\ proc = "down" /\ time = 0
    /\ model = [clk |-> 0, rstn |-> 0, cycles |-> 0, file1 |-> TRUE, tohost |-> NoProgram]
    /\ contents = {} /\ symbols = NoProgram /\ fromhostAddr = NoProgram
    /\ file = [f \in Files |-> Absent] /\ writing = 0
    /\ saves = 0 /\ starts = 0 /\ restored = FALSE /\ wrote = 0

\* Mutant: the map is not emptied.
ClearedNot(m, saved) == m \union saved

\* operator>> of a map empties it first: a word is what the file says, whatever
\* program was loaded before.
Cleared(m, saved) == saved

restore_model(f, p) ==
    /\ file[f].state = "complete"
    /\ time' = file[f].time /\ model' = file[f].model
    /\ contents' = Cleared(Image(p), file[f].contents) /\ symbols' = file[f].symbols

\* main: the initial blocks run in the first eval (memory_init, and the address
\* of tohost into the model); a checkpoint then replaces all of that.
main(p, f) ==
    /\ proc = "down" /\ starts < MaxStarts
    /\ proc' = "running" /\ starts' = starts + 1
    /\ fromhostAddr' = NoProgram
    /\ IF f = 0
       THEN /\ time' = 0
            /\ model' = [clk |-> 0, rstn |-> 0, cycles |-> 0, file1 |-> TRUE, tohost |-> p]
            /\ contents' = Image(p) /\ symbols' = p
       ELSE restore_model(f, p)
    /\ restored' = (f # 0) /\ wrote' = 0
    /\ UNCHANGED <<file, writing, saves>>

Reset(t) == t > 0 /\ t < 5

Saves(m) == m.cycles # 0 /\ m.cycles % checkpoint_cycles = 0

\* One turn of the loop of main: time and clock advance, reset follows time,
\* and the model is evaluated.  At a rising edge the program may store a word,
\* and a cycle count that is due opens a file, which truncates it.
Turn ==
    LET t == time + 1
        rising == model.clk = 0
        in_reset == Reset(t)
        due == rising /\ Saves(model) /\ saves < MaxSaves
        f == IF model.file1 THEN 1 ELSE 2
    IN  /\ proc = "running" /\ model.cycles < MaxCycles
        /\ time' = t
        /\ model' = [model EXCEPT !.clk = 1 - @, !.rstn = IF in_reset THEN 0 ELSE 1,
                                  !.cycles = IF ~rising THEN @ ELSE IF in_reset THEN 0 ELSE @ + 1]
        /\ contents' \in {contents} \union
             IF rising /\ ~in_reset THEN {contents \union {<<model.tohost, 1>>}} ELSE {}
        /\ IF due
           THEN /\ proc' = "saving" /\ writing' = f /\ saves' = saves + 1
                /\ file' = [file EXCEPT ![f] = Partial]
           ELSE UNCHANGED <<proc, writing, saves, file>>
        /\ UNCHANGED <<symbols, fromhostAddr, starts, restored, wrote>>

\* tohost: the address of fromhost is looked up once in every process.
find_fromhost ==
    /\ proc = "running" /\ fromhostAddr = NoProgram
    /\ fromhostAddr' = symbols
    /\ UNCHANGED <<proc, time, model, contents, symbols, file, writing, saves, starts, restored, wrote>>

\* save_model reaches its end; checkpointFile1 changes after it.  The cycle
\* counter of the file is the one before or after this edge, as the compiled
\* model happens to order the two always blocks.
SavedCycles == {model.cycles - 1, model.cycles}

OtherFile(file1) == ~file1

save_model ==
    /\ proc = "saving"
    /\ proc' = "running" /\ writing' = 0
    /\ \E c \in SavedCycles :
          file' = [file EXCEPT ![writing] =
                     [state |-> "complete", time |-> time,
                      model |-> [model EXCEPT !.cycles = c], contents |-> contents, symbols |-> symbols]]
    /\ model' = [model EXCEPT !.file1 = OtherFile(@)]
    /\ wrote' = wrote + 1
    /\ UNCHANGED <<time, contents, symbols, fromhostAddr, saves, starts, restored>>

\* The process is killed.
Crash ==
    /\ proc # "down"
    /\ proc' = "down" /\ writing' = 0
    /\ UNCHANGED <<time, model, contents, symbols, fromhostAddr, file, saves, starts, restored, wrote>>

NextCheckpoint ==
    \/ \E p \in Programs : \E f \in {0} \union Complete : main(p, f)
    \/ Turn \/ find_fromhost \/ save_model \/ Crash

CheckpointSpec == InitCheckpoint /\ [][NextCheckpoint]_checkpointVars
-----------------------------------------------------------------------------
\* Everything in a process belongs to one program, whichever was loaded before
\* a checkpoint took its place: no word of the other image is left in memory,
\* and the host answers where that program waits.
SameProgram ==
    proc # "down" =>
        /\ symbols = model.tohost
        /\ \A w \in contents : w[1] = symbols
        /\ Image(symbols) \subseteq contents
        /\ fromhostAddr \in {NoProgram, symbols}

\* A resumed simulation is never put into reset again: its time goes on from the
\* checkpoint, past the first five ticks in which main asserts reset.
NotResetAgain == proc # "down" /\ restored => model.rstn = 1

\* A process that has completed a checkpoint, whether it was resumed or not,
\* leaves one behind whenever it is killed, also in the middle of a save: the two
\* files take turns.
CheckpointSurvives == wrote > 0 => Complete # {}

\* A simulation can be resumed and is then the one that was saved: one program,
\* not reset again, and a complete file after a crash in a save.
ResumeExact == SameProgram /\ NotResetAgain /\ CheckpointSurvives

\* README.md: the simulation "saves the last 2 checkpoints" and "overwrites the
\* oldest one when creating a third one", so a simulation that was resumed from a
\* checkpoint always has one.  But checkpointFile1 in a file still names that file:
\* a resumed process first overwrites the file that it came from.
OldestOverwritten == restored => Complete # {}
=============================================================================
