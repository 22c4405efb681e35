--------------------------- MODULE RemoteBitbang ---------------------------
(***************************************************************************)
(* The JTAG server of the simulator: remote_bitbang_t, ticked from         *)
(* SimJTAG.sv through jtag_tick, and its client on a socket.  The          *)
(* simulation stands still while a tick runs, so the loops of accept and   *)
(* execute_command that wait for the client hold it up: they are the       *)
(* program counters "accept" and "read".  What the TAP shows on TDO is any *)
(* bit: DTMCS and DMI move it on the rising edge, the other registers on   *)
(* the falling one, and SimJTAG.sv puts a random bit in its place while it *)
(* is not driven.                                                          *)
(***************************************************************************)
EXTENDS Naturals, Sequences, FiniteSets

CONSTANTS Commands,       \* commands that the client sends
          MaxCommands,    \* bound: commands sent in one connection
          MaxSessions,    \* bound: connections that are made
          Leaves          \* whether the client may close without a 'Q'

PinCommands == {"0", "1", "2", "3", "4", "5", "6", "7"}

ASSUME BitbangAssumption ==
    /\ Commands \subseteq PinCommands \union {"B", "b", "r", "R", "Q"}
    /\ MaxCommands \in Nat /\ MaxSessions \in Nat
    /\ Leaves \in BOOLEAN

VARIABLES pc,         \* "run" between ticks, "accept" and "read" inside one, "dead" after abort
          client_fd,  \* whether a client is accepted
          quit, pins, tdo,
          chan,       \* commands the client has sent and the server has not read
          replies,    \* replies of this connection
          asked,      \* the commands of this connection that were executed
          seen,       \* the pins and the TDO of the TAP at each tick that looked for one
          peer,       \* the client: "away", "here" or "gone"
          sessions, issued

server == <<pc, client_fd, quit, pins, tdo, replies, asked, seen>>
bitbangVars == <<server, chan, peer, sessions, issued>>

Level == {0, 1}

\* set_pins of each digit: TCK, TMS, TDI are its bits.
Pins(c) == CASE c = "0" -> <<0, 0, 0>> [] c = "1" -> <<0, 0, 1>>
             [] c = "2" -> <<0, 1, 0>> [] c = "3" -> <<0, 1, 1>>
             [] c = "4" -> <<1, 0, 0>> [] c = "5" -> <<1, 0, 1>>
             [] c = "6" -> <<1, 1, 0>> [] c = "7" -> <<1, 1, 1>>

InitBitbang ==
    /\ pc = "run" /\ client_fd = FALSE /\ quit = FALSE
    /\ pins = <<1, 1, 1>> /\ tdo = 0
    /\ chan = <<>> /\ replies = <<>> /\ asked = <<>> /\ seen = <<>>
    /\ peer = "away" /\ sessions = 0 /\ issued = 0

\* Mutant: TDO is stored after the command, for the next one.
SampledLate(bit) == tdo

Sampled(bit) == bit

\* jtag_tick and the head of tick: TDO is sampled once, before the command; the
\* pins of the last tick have been on the wires since.
tick(bit) ==
    /\ pc = "run"
    /\ IF client_fd
       THEN /\ pc' = "read" /\ tdo' = Sampled(bit)
            /\ seen' = Append(seen, [pins |-> pins, tdo |-> bit])
       ELSE pc' = "accept" /\ UNCHANGED <<tdo, seen>>
    /\ UNCHANGED <<client_fd, quit, pins, chan, replies, asked, peer, sessions, issued>>

\* Mutant: the descriptor of the client is not kept.
acceptForgets ==
    /\ pc = "accept" /\ peer # "away"
    /\ pc' = "run"
    /\ UNCHANGED <<client_fd, quit, pins, tdo, chan, replies, asked, seen, peer, sessions, issued>>

\* accept: asks again until a client is there.
accept ==
    /\ pc = "accept" /\ peer # "away"
    /\ pc' = "run" /\ client_fd' = TRUE
    /\ UNCHANGED <<quit, pins, tdo, chan, replies, asked, seen, peer, sessions, issued>>

\* The end of execute_command: a quit that was ever asked for closes the client.
closeIf(q) ==
    /\ client_fd' = ~q
    /\ chan' = IF q THEN <<>> ELSE Tail(chan)
    /\ peer' = IF q THEN "away" ELSE peer

\* execute_command: reads until there is a command and executes that one.
\* After the client has left, a reply may still be taken by the socket.
execute_command ==
    LET c == Head(chan)
        q == quit \/ c = "Q"
    IN  /\ pc = "read" /\ chan # <<>>
        /\ pc' = "run"
        /\ quit' = q
        /\ pins' = IF c \in PinCommands THEN Pins(c) ELSE pins
        /\ replies' = IF c = "R" THEN Append(replies, tdo) ELSE replies
        /\ asked' = Append(asked, c)
        /\ closeIf(q)
        /\ UNCHANGED <<tdo, seen, sessions, issued>>

\* An error of accept, of the read, or of the write of a reply (a client that
\* is gone, and also a client that does not take its replies) ends the
\* simulation.
abort ==
    /\ \/ pc = "accept" /\ UNCHANGED chan
       \/ pc = "read" /\ UNCHANGED chan
       \/ pc = "read" /\ chan # <<>> /\ Head(chan) = "R" /\ chan' = Tail(chan)
    /\ pc' = "dead"
    /\ UNCHANGED <<client_fd, quit, pins, tdo, replies, asked, seen, peer, sessions, issued>>

(* The client: connects, sends commands, before it is accepted too, and    *)
(* ends with 'Q' or by leaving.                                            *)
Connect ==
    /\ peer = "away" /\ sessions < MaxSessions
    /\ peer' = "here" /\ sessions' = sessions + 1 /\ issued' = 0
    /\ replies' = <<>> /\ asked' = <<>> /\ seen' = <<>>
    /\ UNCHANGED <<pc, client_fd, quit, pins, tdo, chan>>

Send(c) ==
    /\ peer = "here" /\ issued < MaxCommands
    /\ chan' = Append(chan, c) /\ issued' = issued + 1
    /\ UNCHANGED <<server, peer, sessions>>

Leave ==
    /\ Leaves /\ peer = "here"
    /\ peer' = "gone"
    /\ UNCHANGED <<server, chan, sessions, issued>>

Server == (\E bit \in Level : tick(bit)) \/ accept \/ execute_command \/ abort
Client == Connect \/ (\E c \in Commands : Send(c)) \/ Leave

BitbangSpec == InitBitbang /\ [][Server \/ Client]_bitbangVars
-----------------------------------------------------------------------------
\* The state of the server and of its socket keeps its types.
BitbangTypeOK ==
    /\ pc \in {"run", "accept", "read", "dead"}
    /\ client_fd \in BOOLEAN /\ quit \in BOOLEAN
    /\ pins \in [1 .. 3 -> Level] /\ tdo \in Level
    /\ chan \in Seq(Commands) /\ replies \in Seq(Level) /\ asked \in Seq(Commands)
    /\ seen \in Seq([pins : [1 .. 3 -> Level], tdo : Level])
    /\ peer \in {"away", "here", "gone"}
    /\ sessions \in 0 .. MaxSessions /\ issued \in 0 .. MaxCommands

\* The reads among the first n commands, and the pins the client has put on the
\* wires before command n: those of its last pin command.
Reads(n) == {m \in 1 .. n : asked[m] = "R"}
SetBy(n, p) ==
    \/ p = seen[1].pins /\ \A m \in 1 .. n - 1 : asked[m] \notin PinCommands
    \/ \E m \in 1 .. n - 1 :
          /\ asked[m] \in PinCommands /\ p = Pins(asked[m])
          /\ \A k \in m + 1 .. n - 1 : asked[k] \notin PinCommands

\* Every 'R' is answered once, in order, with what the TAP showed when the pins
\* of all the commands before it, and of none after it, had been on the wires
\* for a tick: one command a tick, TDO sampled before the command acts.
RepliesExact ==
    /\ Len(seen) = Len(asked) + (IF pc = "read" THEN 1 ELSE 0) \/ pc = "dead"
    /\ Len(seen) >= Len(asked)
    /\ \A n \in DOMAIN seen : n <= Len(asked) + 1 /\ SetBy(n, seen[n].pins)
    /\ Len(replies) = Cardinality(Reads(Len(asked)))
    /\ \A n \in DOMAIN asked :
          asked[n] = "R" => replies[Cardinality(Reads(n))] = seen[n].tdo

\* A command that was sent is executed in the end, although the server sleeps in
\* accept between two connections; only the first one after a quit was asked
\* for, because quit is never taken back.
CommandsServed ==
    \A n \in 1 .. MaxCommands :
        (peer = "here" /\ issued >= n)
            ~> (Len(asked) >= n \/ pc = "dead" \/ (quit /\ n > 1))

\* The server stays typed and answers what it was asked.
BitbangInv == BitbangTypeOK /\ RepliesExact
=============================================================================
