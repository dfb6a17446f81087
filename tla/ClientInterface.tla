-------------------------- MODULE ClientInterface --------------------------
(***************************************************************************)
(* The network interface: clients connect, register and get the log of the *)
(* tournament; the first one to register may start tournaments.            *)
(*                                                                         *)
(* A connection is a stream of bytes that arrives in pieces.  The bytes    *)
(* of a line are abstract: <<"W">> is the greeting, <<"C", file>> the      *)
(* command to start a tournament, where "file" can be parsed and others    *)
(* can't, "NL" ends a line and "NUL" may follow it, since C programs send  *)
(* the end of the string as well.  Of the arena there is only whether a    *)
(* tournament is going on.                                                 *)
(***************************************************************************)
EXTENDS Naturals, Sequences, FiniteSets, SequencesExt

CONSTANTS
    Connections,    \* all connections that are ever made
    SendsNul,       \* those whose clients send a NUL after every line
    ClientLines,    \* the lines that clients send, sequences of bytes
    ReadSize,       \* 4096, the most that is read from a client at a time
    Graphics,       \* ~ no_graphics
    MaxLines,       \* bound: lines that clients send altogether
    MaxTournaments, \* bound: tournaments started
    MaxLog          \* bound: log lines of a tournament

\* The bytes a line is made of.
Letters == STRING \ {"NL", "NUL"}

ASSUME ClientAssumption ==
    /\ {ReadSize, MaxTournaments, MaxLog} \subseteq Nat \ {0} /\ MaxLines \in Nat
    /\ Graphics \in BOOLEAN /\ SendsNul \subseteq Connections
    /\ ClientLines \subseteq Seq(Letters)

VARIABLES
    conn,           \* conn[c]: the connection c, a record
    has_master,
    accepting,      \* _is_accepting
    arena,          \* "none", "running" or "finished"
    log,            \* the number of log lines of the current tournament
    lines,          \* history: lines sent so far
    tournaments,    \* history: tournaments started so far
    failed          \* history: a command failed that ended a running tournament

vars == <<conn, has_master, accepting, arena, log, lines, tournaments, failed>>

-----------------------------------------------------------------------------
\* stage        "new", "queued" by the system, "open" (in _clients), "closed"
\* net          bytes on their way to the server
\* ended        the client has closed its end
\* line         _line
\* begun        the number of the first line of this tournament's log that it got
\* sent, parsed history: the lines sent and the lines given to parse_line
\* lost         history: a piece of a line was lost by a full read
NewConnection ==
    [stage |-> "new", net |-> <<>>, ended |-> FALSE, line |-> <<>>, initialized |-> FALSE,
     master |-> FALSE, begun |-> 0, sent |-> <<>>, parsed |-> <<>>, lost |-> FALSE]

Greeting == <<"W">>

Open(m) == {c \in Connections : m.conn[c].stage = "open"}

\* What a step changes while it works through bytes.
Current ==
    [conn |-> conn, has_master |-> has_master, accepting |-> accepting, arena |-> arena,
     log |-> log, tournaments |-> tournaments, failed |-> failed]

Become(m) ==
    /\ conn' = m.conn
    /\ has_master' = m.has_master
    /\ accepting' = m.accepting
    /\ arena' = m.arena
    /\ log' = m.log
    /\ tournaments' = m.tournaments
    /\ failed' = m.failed

\* A line is printed to Broadcast: everybody in _clients gets it.
Printed(m) ==
    LET n == m.log + 1
    IN  [m EXCEPT !.log = n,
                  !.conn = [c \in Connections |->
                              [m.conn[c] EXCEPT !.begun =
                                 IF c \in Open(m) /\ @ = 0 THEN n ELSE @]]]

\* The log of another tournament, or of none.
NoLog(m) ==
    [m EXCEPT !.log = 0, !.conn = [c \in Connections |-> [m.conn[c] EXCEPT !.begun = 0]]]

\* Mutation of Started: clients are still accepted.
StartedOpen(m) ==
    Printed([NoLog(m) EXCEPT !.arena = "running", !.tournaments = @ + 1])

\* start_tournament: no more connections, and the first line of the log.
Started(m) ==
    Printed([NoLog(m) EXCEPT !.arena = "running", !.accepting = FALSE, !.tournaments = @ + 1])

\* parse_command 'N': the old arena is closed first, and the file parsed then.
ParseCommand(m, file) ==
    IF file = "file" THEN Started(m)
    ELSE [NoLog(m) EXCEPT !.arena = "none", !.failed = @ \/ m.arena = "running"]

\* The handshake in parse_line.
Register(m, c) ==
    [m EXCEPT !.conn[c].initialized = TRUE, !.conn[c].master = ~ m.has_master,
              !.has_master = TRUE]

Close(m, c) == [m EXCEPT !.conn[c].stage = "closed", !.conn[c].net = <<>>]

\* parse_line; a client that does not greet is disconnected.
ParseLine(m, c) ==
    LET line == m.conn[c].line
        n    == [m EXCEPT !.conn[c].parsed = Append(@, line), !.conn[c].line = <<>>]
    IN  IF ~ m.conn[c].initialized
        THEN IF line = Greeting THEN Register(n, c) ELSE Close(n, c)
        ELSE IF m.conn[c].master /\ Len(line) > 1 /\ line[1] = "C"
        THEN ParseCommand(n, line[2])
        ELSE n

\* Mutation of Received: what came before is forgotten.
ReceivedAnew(m, c, seg) == [m EXCEPT !.conn[c].line = seg]

\* _line += pos
Received(m, c, seg) == [m EXCEPT !.conn[c].line = @ \o seg]

\* One byte of what loop has read; seg is the piece that pos points to.
Byte(acc, c, b) ==
    IF acc.m.conn[c].stage = "closed" THEN acc
    ELSE CASE b = "NL"  -> [m |-> ParseLine(Received(acc.m, c, acc.seg), c), seg |-> <<>>]
           [] b = "NUL" -> [acc EXCEPT !.seg = <<>>]
           [] OTHER     -> [acc EXCEPT !.seg = Append(@, b)]

\* The for loop of loop: all bytes that have been read, from the first one on.
Through(m, c, bytes) ==
    LET acc[i \in 0 .. Len(bytes)] ==
          IF i = 0 THEN [m |-> m, seg |-> <<>>] ELSE Byte(acc[i - 1], c, bytes[i])
    IN  acc[Len(bytes)]

\* loop, n bytes having been read.  Behind the last byte the piece left over is
\* kept, but after a full read the for loop ends before it gets there.
Loop(c, n) ==
    LET start == [Current EXCEPT !.conn[c].net = SubSeq(@, n + 1, Len(@))]
        acc   == Through(start, c, SubSeq(conn[c].net, 1, n))
    IN  IF acc.m.conn[c].stage = "closed" \/ acc.seg = <<>> THEN acc.m
        ELSE IF n < ReadSize THEN Received(acc.m, c, acc.seg)
        ELSE [acc.m EXCEPT !.conn[c].lost = TRUE]

-----------------------------------------------------------------------------
\* The client connects; the system queues the connection.
Connect(c) ==
    /\ conn[c].stage = "new"
    /\ conn' = [conn EXCEPT ![c].stage = "queued"]
    /\ UNCHANGED <<has_master, accepting, arena, log, lines, tournaments, failed>>

Send(c) ==
    /\ conn[c].stage \in {"queued", "open"} /\ ~ conn[c].ended
    /\ lines < MaxLines
    /\ \E line \in ClientLines :
         conn' = [conn EXCEPT ![c].net = @ \o line \o (IF c \in SendsNul THEN <<"NL", "NUL">>
                                                      ELSE <<"NL">>),
                              ![c].sent = Append(@, line)]
    /\ lines' = lines + 1
    /\ UNCHANGED <<has_master, accepting, arena, log, tournaments, failed>>

Hangup(c) ==
    /\ conn[c].stage \in {"queued", "open"} /\ ~ conn[c].ended
    /\ conn' = [conn EXCEPT ![c].ended = TRUE]
    /\ UNCHANGED <<has_master, accepting, arena, log, lines, tournaments, failed>>

\* ClientInterface::loop takes all connections that are queued.
Accept ==
    /\ accepting
    /\ \E c \in Connections : conn[c].stage = "queued"
    /\ conn' = [c \in Connections |->
                  [conn[c] EXCEPT !.stage = IF @ = "queued" THEN "open" ELSE @]]
    /\ UNCHANGED <<has_master, accepting, arena, log, lines, tournaments, failed>>

\* ClientConnection::loop, with what has arrived so far.
ClientLoop(c) ==
    /\ conn[c].stage = "open"
    /\ \E n \in 1 .. Len(conn[c].net) :
         /\ n <= ReadSize
         /\ LET m == Loop(c, n) IN m.tournaments <= MaxTournaments /\ Become(m)
    /\ UNCHANGED lines

\* The end of the connection: what is left of a line is parsed.
ClientEnds(c) ==
    /\ conn[c].stage = "open" /\ conn[c].net = <<>> /\ conn[c].ended
    /\ LET m == IF conn[c].line = <<>> THEN Current ELSE ParseLine(Current, c)
       IN  m.tournaments <= MaxTournaments /\ Become(Close(m, c))
    /\ UNCHANGED lines

\* A tournament is started in a window.
StartTournament ==
    /\ tournaments < MaxTournaments
    /\ Become(Started(Current))
    /\ UNCHANGED lines

\* Mutation of EndTournament: as without graphics.
EndTournamentDeaf ==
    /\ arena = "running"
    /\ Become([NoLog(Current) EXCEPT !.arena = "finished"])
    /\ UNCHANGED lines

\* end_tournament or interrupt_tournament.  Only set_state with graphics opens the
\* door again.
EndTournament ==
    /\ arena = "running"
    /\ Become([NoLog(Current) EXCEPT !.arena = "finished", !.accepting = @ \/ Graphics])
    /\ UNCHANGED lines

PrintLog ==
    /\ arena = "running" /\ log < MaxLog
    /\ Become(Printed(Current))
    /\ UNCHANGED lines

Init ==
    /\ conn = [c \in Connections |-> NewConnection]
    /\ has_master = FALSE
    /\ accepting = TRUE
    /\ arena = "none"
    /\ log = 0
    /\ lines = 0
    /\ tournaments = 0
    /\ failed = FALSE

Next ==
    \/ Accept
    \/ StartTournament
    \/ EndTournament
    \/ PrintLog
    \/ \E c \in Connections : Connect(c) \/ Send(c) \/ Hangup(c) \/ ClientLoop(c) \/ ClientEnds(c)

Spec == Init /\ [][Next]_vars

\* update_function is called for ever, and tournaments come to an end.
FairSpec ==
    /\ Spec
    /\ WF_vars(Accept)
    /\ WF_vars(EndTournament)

-----------------------------------------------------------------------------
(***************************************************************************)
(* Properties.                                                             *)
(***************************************************************************)

\* However the bytes of a client are cut into pieces on their way, loop puts its
\* lines together again: those given to parse_line are those sent, in their
\* order, unless a read was full.
LinesIntact ==
    \A c \in Connections : ~ conn[c].lost => IsPrefix(conn[c].parsed, conn[c].sent)

\* Nobody gets the log of a tournament from the middle, and nobody who is
\* connected misses its beginning: connections are not accepted during a
\* tournament (set_accepting, start_tournament).
WholeLog ==
    arena = "running" =>
      /\ log > 0
      /\ \A c \in Connections : conn[c].stage = "open" => conn[c].begun = 1

\* With graphics, a client that connects is let in sooner or later, unless a
\* command of the master has ended a tournament without starting another one
\* (set_accepting, set_state).
ConnectionsServed ==
    \A c \in Connections :
      conn[c].stage = "queued" ~> (conn[c].stage # "queued" \/ failed)
=============================================================================
