------------------------ MODULE ClientInterfaceProofs ------------------------
(***************************************************************************)
(* Proofs about the network interface, for any number of clients, any      *)
(* lines and any way in which the bytes arrive: lines are put together as  *)
(* they were sent, clients get whole logs, and only one client is master.  *)
(*                                                                         *)
(* A read is a loop over its bytes, a recursive function of the model: it  *)
(* is shown to exist, and the invariant is carried from byte to byte.      *)
(***************************************************************************)
EXTENDS ClientInterface, SequenceTheorems, NaturalsInduction, WellFoundedInduction, TLAPS

\* Letters and the bytes that end a line.
Bytes == Letters \cup {"NL", "NUL"}

Stages == {"new", "queued", "open", "closed"}

\* The types the proofs need.
Connection ==
    [stage : Stages, net : Seq(Bytes), ended : BOOLEAN, line : Seq(Letters),
     initialized : BOOLEAN, master : BOOLEAN, begun : Nat, sent : Seq(ClientLines),
     parsed : Seq(Seq(Letters)), lost : BOOLEAN]

\* What a step changes while it works through bytes (see Current).
Machine ==
    [conn : [Connections -> Connection], has_master : BOOLEAN, accepting : BOOLEAN,
     arena : {"none", "running", "finished"}, log : Nat, tournaments : Nat,
     failed : BOOLEAN]

\* Nobody comes in during a tournament, and who is in has had its first line.
LogKept(m) ==
    m.arena = "running" =>
      /\ ~ m.accepting
      /\ m.log > 0
      /\ \A c \in Connections : m.conn[c].stage = "open" => m.conn[c].begun = 1

\* Whoever is master has made has_master true, and is the only one.
MasterKept(m) ==
    \A c \in Connections : m.conn[c].master =>
      m.has_master /\ \A d \in Connections : m.conn[d].master => d = c

\* The same connection, whatever it has got of the log.
SameConnection(r, s) ==
    /\ r.stage = s.stage /\ r.net = s.net /\ r.ended = s.ended /\ r.line = s.line
    /\ r.initialized = s.initialized /\ r.master = s.master
    /\ r.sent = s.sent /\ r.parsed = s.parsed /\ r.lost = s.lost

SameConnections(m, n) ==
    \A c \in Connections : SameConnection(n.conn[c], m.conn[c])

\* A machine whose fields are changed one by one is a machine.
LEMMA MachineTyped ==
    ASSUME NEW m \in Machine, NEW con \in [Connections -> Connection], NEW n \in Nat
    PROVE  /\ [m EXCEPT !.conn = con] \in Machine
           /\ [m EXCEPT !.log = n, !.conn = con] \in Machine
BY DEF Machine

\* So is one whose arena is another.
LEMMA ArenaTyped ==
    ASSUME NEW m \in Machine, NEW a \in {"none", "running", "finished"}, NEW n \in Nat,
           NEW acc \in BOOLEAN, NEW f \in BOOLEAN
    PROVE  /\ [m EXCEPT !.arena = a, !.accepting = acc, !.tournaments = n] \in Machine
           /\ [m EXCEPT !.arena = a, !.accepting = acc] \in Machine
           /\ [m EXCEPT !.arena = a, !.failed = f] \in Machine
BY DEF Machine

\* A connection whose lines are others is a connection.
LEMMA LineTyped ==
    ASSUME NEW r \in Connection, NEW p \in Seq(Seq(Letters)), NEW l \in Seq(Letters)
    PROVE  /\ [r EXCEPT !.parsed = p, !.line = l] \in Connection
           /\ [r EXCEPT !.line = l] \in Connection
BY DEF Connection

\* So is one that has registered, or is closed, or has been read from.
LEMMA ConnectionTyped ==
    ASSUME NEW r \in Connection, NEW b \in BOOLEAN, NEW t \in BOOLEAN, NEW s \in Stages,
           NEW net \in Seq(Bytes)
    PROVE  /\ [r EXCEPT !.initialized = t, !.master = b] \in Connection
           /\ [r EXCEPT !.stage = s, !.net = net] \in Connection
           /\ [r EXCEPT !.stage = s] \in Connection
           /\ [r EXCEPT !.net = net] \in Connection
           /\ [r EXCEPT !.lost = t] \in Connection
           /\ [r EXCEPT !.ended = t] \in Connection
BY DEF Connection

-----------------------------------------------------------------------------
(***************************************************************************)
(* The log.                                                                *)
(***************************************************************************)

\* A line of the log changes nothing but the number of lines and who has got one.
LEMMA PrintedIs ==
    ASSUME NEW m \in Machine
    PROVE  /\ Printed(m) \in Machine
           /\ SameConnections(m, Printed(m))
           /\ Printed(m).log = m.log + 1
           /\ Printed(m).arena = m.arena /\ Printed(m).accepting = m.accepting
           /\ Printed(m).has_master = m.has_master
           /\ \A c \in Connections :
                Printed(m).conn[c].begun = IF m.conn[c].stage = "open" /\ m.conn[c].begun = 0
                                           THEN m.log + 1 ELSE m.conn[c].begun
<1> DEFINE n == m.log + 1
           new == [c \in Connections |->
                     [m.conn[c] EXCEPT !.begun = IF c \in Open(m) /\ @ = 0 THEN n ELSE @]]
<1>1. n \in Nat /\ m.conn \in [Connections -> Connection]
  BY DEF Machine
<1>2. Printed(m) = [m EXCEPT !.log = n, !.conn = new]
  BY DEF Printed
<1>3. ASSUME NEW c \in Connections
      PROVE  /\ new[c] \in Connection
             /\ SameConnection(new[c], m.conn[c])
             /\ new[c].begun = IF m.conn[c].stage = "open" /\ m.conn[c].begun = 0
                               THEN n ELSE m.conn[c].begun
  <2>1. m.conn[c] \in Connection
    BY <1>1
  <2>2. c \in Open(m) <=> m.conn[c].stage = "open"
    BY DEF Open
  <2> QED
    BY <1>1, <2>1, <2>2 DEF Connection, SameConnection
<1>4. new \in [Connections -> Connection]
  BY <1>3
<1> HIDE DEF new, n
<1>5. /\ Printed(m) \in Machine /\ Printed(m).conn = new /\ Printed(m).log = n
      /\ Printed(m).arena = m.arena /\ Printed(m).accepting = m.accepting
      /\ Printed(m).has_master = m.has_master
  BY <1>1, <1>2, <1>4 DEF Machine
<1> QED
  BY <1>3, <1>5 DEF SameConnections, n

\* Without a log nobody has begun to get one.
LEMMA NoLogIs ==
    ASSUME NEW m \in Machine
    PROVE  /\ NoLog(m) \in Machine
           /\ SameConnections(m, NoLog(m))
           /\ NoLog(m).log = 0
           /\ NoLog(m).arena = m.arena /\ NoLog(m).accepting = m.accepting
           /\ NoLog(m).has_master = m.has_master
           /\ NoLog(m).tournaments = m.tournaments /\ NoLog(m).failed = m.failed
           /\ \A c \in Connections : NoLog(m).conn[c].begun = 0
<1> DEFINE new == [c \in Connections |-> [m.conn[c] EXCEPT !.begun = 0]]
<1>1. m.conn \in [Connections -> Connection]
  BY DEF Machine
<1>2. NoLog(m) = [m EXCEPT !.log = 0, !.conn = new]
  BY DEF NoLog
<1>3. ASSUME NEW c \in Connections
      PROVE  new[c] \in Connection /\ SameConnection(new[c], m.conn[c]) /\ new[c].begun = 0
  <2>1. m.conn[c] \in Connection
    BY <1>1
  <2> QED
    BY <2>1 DEF Connection, SameConnection
<1>4. new \in [Connections -> Connection]
  BY <1>3
<1> HIDE DEF new
<1>5. NoLog(m) \in Machine
  <2>1. 0 \in Nat
    OBVIOUS
  <2>2. [m EXCEPT !.log = 0, !.conn = new] \in Machine
    BY <1>4, <2>1, MachineTyped
  <2> QED
    BY <1>2, <2>2, Zenon
<1>6. /\ NoLog(m).conn = new /\ NoLog(m).log = 0
      /\ NoLog(m).arena = m.arena /\ NoLog(m).accepting = m.accepting
      /\ NoLog(m).has_master = m.has_master
      /\ NoLog(m).tournaments = m.tournaments /\ NoLog(m).failed = m.failed
  BY <1>2 DEF Machine
<1> QED
  BY <1>3, <1>5, <1>6 DEF SameConnections

\* start_tournament: everybody who is connected gets the first line.
LEMMA StartedIs ==
    ASSUME NEW m \in Machine
    PROVE  /\ Started(m) \in Machine
           /\ SameConnections(m, Started(m))
           /\ LogKept(Started(m))
           /\ Started(m).has_master = m.has_master
<1> DEFINE e == NoLog(m)
           s == [e EXCEPT !.arena = "running", !.accepting = FALSE, !.tournaments = @ + 1]
<1>1. /\ e \in Machine /\ SameConnections(m, e) /\ e.log = 0
      /\ e.has_master = m.has_master /\ \A c \in Connections : e.conn[c].begun = 0
  BY NoLogIs
<1>2. Started(m) = Printed(s)
  BY DEF Started
<1> HIDE DEF e
<1>3. s \in Machine
  <2>1. e.tournaments + 1 \in Nat /\ FALSE \in BOOLEAN
    BY <1>1 DEF Machine
  <2> QED
    BY <1>1, <2>1, ArenaTyped, Zenon
<1>4. /\ s.conn = e.conn /\ s.log = e.log /\ s.arena = "running"
      /\ ~ s.accepting /\ s.has_master = e.has_master
  BY <1>1 DEF Machine
<1> HIDE DEF s
<1>5. /\ Printed(s) \in Machine /\ SameConnections(s, Printed(s))
      /\ Printed(s).log = 1 /\ Printed(s).accepting = s.accepting
      /\ Printed(s).has_master = m.has_master
      /\ \A c \in Connections : s.conn[c].stage = "open" => Printed(s).conn[c].begun = 1
  BY <1>1, <1>3, <1>4, PrintedIs
<1>6. SameConnections(m, Printed(s))
  BY <1>1, <1>4, <1>5 DEF SameConnections, SameConnection
<1>7. LogKept(Printed(s))
  BY <1>4, <1>5 DEF LogKept, SameConnections, SameConnection
<1> QED
  BY <1>2, <1>5, <1>6, <1>7

\* parse_command 'N', whether the file can be parsed or not.
LEMMA ParseCommandIs ==
    ASSUME NEW m \in Machine, NEW file
    PROVE  /\ ParseCommand(m, file) \in Machine
           /\ SameConnections(m, ParseCommand(m, file))
           /\ LogKept(ParseCommand(m, file))
           /\ ParseCommand(m, file).has_master = m.has_master
<1> DEFINE e == NoLog(m)
           s == [e EXCEPT !.arena = "none", !.failed = @ \/ m.arena = "running"]
<1>1. CASE file = "file"
  BY <1>1, StartedIs DEF ParseCommand
<1>2. CASE file # "file"
  <2>1. ParseCommand(m, file) = s
    BY <1>2 DEF ParseCommand
  <2>2. e \in Machine /\ SameConnections(m, e) /\ e.has_master = m.has_master
    BY NoLogIs
  <2> HIDE DEF e
  <2>3. s \in Machine /\ s.conn = e.conn /\ s.arena = "none" /\ s.has_master = e.has_master
    BY <2>2 DEF Machine
  <2> QED
    BY <2>1, <2>2, <2>3 DEF LogKept, SameConnections
<1> QED
  BY <1>1, <1>2
-----------------------------------------------------------------------------
(***************************************************************************)
(* parse_line.                                                             *)
(***************************************************************************)

\* The log and the master.
Kept(m) == m \in Machine /\ LogKept(m) /\ MasterKept(m)

\* What the lines of connection c can do.
Handled(m, n, c) ==
    /\ \A d \in Connections : d # c => SameConnection(n.conn[d], m.conn[d])
    /\ n.conn[c].sent = m.conn[c].sent
    /\ n.conn[c].lost = m.conn[c].lost
    /\ n.conn[c].ended = m.conn[c].ended
    /\ n.conn[c].stage \in {"open", "closed"}
    /\ n.conn[c].stage = "open" => n.conn[c].net = m.conn[c].net

\* The line is given to parse_line, and _line is empty.
LineTaken(m, c) ==
    [m EXCEPT !.conn[c].parsed = Append(@, m.conn[c].line), !.conn[c].line = <<>>]

\* The same machine but for connection c.
But(m, n, c) ==
    /\ n \in Machine
    /\ n.arena = m.arena /\ n.accepting = m.accepting /\ n.log = m.log
    /\ \A d \in Connections : d # c => n.conn[d] = m.conn[d]
    /\ n.conn[c].begun = m.conn[c].begun
    /\ n.conn[c].stage = "open" => m.conn[c].stage = "open"

\* What is kept if only c changes, and is not let in.
LEMMA ButKeeps ==
    ASSUME NEW m \in Machine, LogKept(m), NEW c \in Connections, NEW n, But(m, n, c)
    PROVE  LogKept(n)
BY DEF But, LogKept

\* The masters are kept with the connections.
LEMMA SameMaster ==
    ASSUME NEW m, NEW n, MasterKept(m), n.has_master = m.has_master,
           \A c \in Connections : n.conn[c].master = m.conn[c].master
    PROVE  MasterKept(n)
BY DEF MasterKept

\* The line is taken.
LEMMA LineTakenIs ==
    ASSUME NEW m \in Machine, NEW c \in Connections
    PROVE  /\ But(m, LineTaken(m, c), c)
           /\ LineTaken(m, c).has_master = m.has_master
           /\ LineTaken(m, c).conn[c].parsed = Append(m.conn[c].parsed, m.conn[c].line)
           /\ LineTaken(m, c).conn[c].line = <<>>
           /\ LineTaken(m, c).conn[c].stage = m.conn[c].stage
           /\ LineTaken(m, c).conn[c].net = m.conn[c].net
           /\ LineTaken(m, c).conn[c].ended = m.conn[c].ended
           /\ LineTaken(m, c).conn[c].sent = m.conn[c].sent
           /\ LineTaken(m, c).conn[c].lost = m.conn[c].lost
           /\ LineTaken(m, c).conn[c].master = m.conn[c].master
           /\ LineTaken(m, c).conn[c].initialized = m.conn[c].initialized
<1> DEFINE r == m.conn[c]
           q == [r EXCEPT !.parsed = Append(r.parsed, r.line), !.line = <<>>]
           n == LineTaken(m, c)
<1>1. m.conn \in [Connections -> Connection] /\ r \in Connection
  BY DEF Machine
<1>2. q \in Connection
  <2>1. Append(r.parsed, r.line) \in Seq(Seq(Letters)) /\ <<>> \in Seq(Letters)
    BY <1>1 DEF Connection
  <2> HIDE DEF r
  <2> QED
    BY <1>1, <2>1, LineTyped
<1>3. n.conn = [m.conn EXCEPT ![c] = q]
  BY <1>1 DEF LineTaken, Machine, Connection
<1>4. n.conn \in [Connections -> Connection] /\ n.conn[c] = q
      /\ \A d \in Connections : d # c => n.conn[d] = m.conn[d]
  <2> HIDE DEF q, n
  <2> QED
    BY <1>1, <1>2, <1>3
<1>5. /\ n.arena = m.arena /\ n.accepting = m.accepting /\ n.log = m.log
      /\ n.has_master = m.has_master
  BY DEF LineTaken, Machine
<1>6. n = [m EXCEPT !.conn = n.conn]
  BY DEF LineTaken, Machine
<1>7. n \in Machine
  BY <1>4, <1>6, MachineTyped
<1>8. q.begun = r.begun /\ q.stage = r.stage
  BY <1>1 DEF Connection
<1>9. But(m, n, c)
  BY <1>4, <1>5, <1>7, <1>8 DEF But
<1>10. /\ q.parsed = Append(r.parsed, r.line) /\ q.line = <<>> /\ q.net = r.net
       /\ q.ended = r.ended /\ q.sent = r.sent /\ q.lost = r.lost /\ q.master = r.master
       /\ q.initialized = r.initialized
  BY <1>1 DEF Connection
<1> HIDE DEF q, n
<1> QED
  BY <1>4, <1>5, <1>8, <1>9, <1>10 DEF n
\* The handshake.
LEMMA RegisterIs ==
    ASSUME NEW m \in Machine, NEW c \in Connections
    PROVE  /\ But(m, Register(m, c), c)
           /\ MasterKept(m) => MasterKept(Register(m, c))
           /\ Register(m, c).conn[c].parsed = m.conn[c].parsed
           /\ Register(m, c).conn[c].line = m.conn[c].line
           /\ Register(m, c).conn[c].stage = m.conn[c].stage
           /\ Register(m, c).conn[c].net = m.conn[c].net
           /\ Register(m, c).conn[c].ended = m.conn[c].ended
           /\ Register(m, c).conn[c].sent = m.conn[c].sent
           /\ Register(m, c).conn[c].lost = m.conn[c].lost
<1> DEFINE r == m.conn[c]
           first == ~ m.has_master
           q == [r EXCEPT !.initialized = TRUE, !.master = first]
           n == Register(m, c)
<1>1. /\ m.conn \in [Connections -> Connection] /\ r \in Connection
      /\ first \in BOOLEAN /\ TRUE \in BOOLEAN /\ m.has_master \in BOOLEAN
  BY DEF Machine
<1>2. q \in Connection
  <2> HIDE DEF r, first
  <2> QED
    BY <1>1, ConnectionTyped DEF Connection
<1>3. n.conn = [m.conn EXCEPT ![c] = q]
  BY <1>1 DEF Register, Machine, Connection
<1>4. n.conn \in [Connections -> Connection] /\ n.conn[c] = q
      /\ \A d \in Connections : d # c => n.conn[d] = m.conn[d]
  <2> HIDE DEF q, n
  <2> QED
    BY <1>1, <1>2, <1>3
<1>5. /\ n.arena = m.arena /\ n.accepting = m.accepting /\ n.log = m.log
      /\ n.has_master
  BY DEF Register, Machine
<1>6. n = [m EXCEPT !.conn = n.conn, !.has_master = TRUE]
  BY DEF Register, Machine
<1>7. n \in Machine
  <2> DEFINE con == n.conn
  <2>1. con \in [Connections -> Connection] /\ TRUE \in BOOLEAN
    BY <1>4
  <2>2. n = [m EXCEPT !.conn = con, !.has_master = TRUE]
    BY <1>6
  <2> HIDE DEF con
  <2>3. [m EXCEPT !.conn = con, !.has_master = TRUE] \in Machine
    BY <2>1 DEF Machine
  <2> QED
    BY <2>2, <2>3, Zenon
<1>8. q.begun = r.begun /\ q.stage = r.stage /\ q.master = first
  BY <1>1 DEF Connection
<1>9. But(m, n, c)
  BY <1>4, <1>5, <1>7, <1>8 DEF But
<1>10. /\ q.parsed = r.parsed /\ q.line = r.line /\ q.net = r.net
       /\ q.ended = r.ended /\ q.sent = r.sent /\ q.lost = r.lost
  BY <1>1 DEF Connection
<1>11. MasterKept(m) => MasterKept(n)
  <2> HIDE DEF q, n
  <2> QED
    BY <1>1, <1>4, <1>5, <1>8 DEF MasterKept
<1> HIDE DEF q, n
<1> QED
  BY <1>4, <1>8, <1>9, <1>10, <1>11 DEF n

\* The end of a connection.
LEMMA CloseIs ==
    ASSUME NEW m \in Machine, NEW c \in Connections
    PROVE  /\ But(m, Close(m, c), c)
           /\ Close(m, c).has_master = m.has_master
           /\ Close(m, c).tournaments = m.tournaments
           /\ Close(m, c).conn[c].master = m.conn[c].master
           /\ Close(m, c).conn[c].parsed = m.conn[c].parsed
           /\ Close(m, c).conn[c].line = m.conn[c].line
           /\ Close(m, c).conn[c].stage = "closed"
           /\ Close(m, c).conn[c].ended = m.conn[c].ended
           /\ Close(m, c).conn[c].sent = m.conn[c].sent
           /\ Close(m, c).conn[c].lost = m.conn[c].lost
<1> DEFINE r == m.conn[c]
           q == [r EXCEPT !.stage = "closed", !.net = <<>>]
           n == Close(m, c)
<1>1. m.conn \in [Connections -> Connection] /\ r \in Connection
  BY DEF Machine
<1>2. q \in Connection
  <2>1. "closed" \in Stages /\ <<>> \in Seq(Bytes)
    BY DEF Stages
  <2> HIDE DEF r
  <2> QED
    BY <1>1, <2>1, ConnectionTyped
<1>3. n.conn = [m.conn EXCEPT ![c] = q]
  BY <1>1 DEF Close, Machine, Connection
<1>4. n.conn \in [Connections -> Connection] /\ n.conn[c] = q
      /\ \A d \in Connections : d # c => n.conn[d] = m.conn[d]
  <2> HIDE DEF q, n
  <2> QED
    BY <1>1, <1>2, <1>3
<1>5. /\ n.arena = m.arena /\ n.accepting = m.accepting /\ n.log = m.log
      /\ n.has_master = m.has_master /\ n.tournaments = m.tournaments
  BY DEF Close, Machine
<1>6. n = [m EXCEPT !.conn = n.conn]
  BY DEF Close, Machine
<1>7. n \in Machine
  BY <1>4, <1>6, MachineTyped
<1>8. q.begun = r.begun /\ q.stage = "closed"
  BY <1>1 DEF Connection
<1>9. But(m, n, c)
  BY <1>4, <1>5, <1>7, <1>8 DEF But
<1>10. /\ q.parsed = r.parsed /\ q.line = r.line /\ q.master = r.master
       /\ q.ended = r.ended /\ q.sent = r.sent /\ q.lost = r.lost
  BY <1>1 DEF Connection
<1> HIDE DEF q, n
<1> QED
  BY <1>4, <1>5, <1>8, <1>9, <1>10 DEF n
\* A piece is added to the line.
LEMMA ReceivedIs ==
    ASSUME NEW m \in Machine, NEW c \in Connections, NEW seg \in Seq(Letters)
    PROVE  /\ But(m, Received(m, c, seg), c)
           /\ Received(m, c, seg).has_master = m.has_master
           /\ Received(m, c, seg).conn[c].parsed = m.conn[c].parsed
           /\ Received(m, c, seg).conn[c].line = m.conn[c].line \o seg
           /\ Received(m, c, seg).conn[c].stage = m.conn[c].stage
           /\ Received(m, c, seg).conn[c].net = m.conn[c].net
           /\ Received(m, c, seg).conn[c].ended = m.conn[c].ended
           /\ Received(m, c, seg).conn[c].sent = m.conn[c].sent
           /\ Received(m, c, seg).conn[c].lost = m.conn[c].lost
           /\ Received(m, c, seg).conn[c].master = m.conn[c].master
<1> DEFINE r == m.conn[c]
           l == r.line \o seg
           q == [r EXCEPT !.line = l]
           n == Received(m, c, seg)
<1>1. m.conn \in [Connections -> Connection] /\ r \in Connection
  BY DEF Machine
<1>2. q \in Connection
  <2>1. l \in Seq(Letters)
    <3>1. r.line \in Seq(Letters)
      BY <1>1 DEF Connection
    <3> QED
      BY <3>1, ConcatProperties
  <2>2. <<>> \in Seq(Seq(Letters))
    OBVIOUS
  <2> HIDE DEF r, l
  <2> QED
    BY <1>1, <2>1, <2>2, LineTyped
<1>3. n.conn = [m.conn EXCEPT ![c] = q]
  BY <1>1 DEF Received, Machine, Connection
<1>4. n.conn \in [Connections -> Connection] /\ n.conn[c] = q
      /\ \A d \in Connections : d # c => n.conn[d] = m.conn[d]
  <2> HIDE DEF q, n
  <2> QED
    BY <1>1, <1>2, <1>3
<1>5. /\ n.arena = m.arena /\ n.accepting = m.accepting /\ n.log = m.log
      /\ n.has_master = m.has_master
  BY DEF Received, Machine
<1>6. n = [m EXCEPT !.conn = n.conn]
  BY DEF Received, Machine
<1>7. n \in Machine
  BY <1>4, <1>6, MachineTyped
<1>8. q.begun = r.begun /\ q.stage = r.stage
  BY <1>1 DEF Connection
<1>9. But(m, n, c)
  BY <1>4, <1>5, <1>7, <1>8 DEF But
<1>10. /\ q.parsed = r.parsed /\ q.line = r.line \o seg /\ q.net = r.net
       /\ q.ended = r.ended /\ q.sent = r.sent /\ q.lost = r.lost /\ q.master = r.master
  BY <1>1 DEF Connection
<1> HIDE DEF q, n
<1> QED
  BY <1>4, <1>5, <1>8, <1>9, <1>10 DEF n

\* Equal connections are the same.
LEMMA ButOthersSame ==
    ASSUME NEW m, NEW n, NEW c, But(m, n, c)
    PROVE  \A d \in Connections : d # c => SameConnection(n.conn[d], m.conn[d])
BY DEF But, SameConnection

\* A line is parsed: it is the next one in parsed, and whatever it says the log and
\* the master are kept.
LEMMA ParseLineIs ==
    ASSUME NEW m, Kept(m), NEW c \in Connections, m.conn[c].stage = "open"
    PROVE  /\ Kept(ParseLine(m, c))
           /\ Handled(m, ParseLine(m, c), c)
           /\ ParseLine(m, c).conn[c].parsed = Append(m.conn[c].parsed, m.conn[c].line)
           /\ ParseLine(m, c).conn[c].line = <<>>
<1> DEFINE line == m.conn[c].line
           t == LineTaken(m, c)
           n == ParseLine(m, c)
<1>1. m \in Machine /\ LogKept(m) /\ MasterKept(m)
  BY DEF Kept
<1>2. /\ But(m, t, c)
      /\ t.has_master = m.has_master
      /\ t.conn[c].parsed = Append(m.conn[c].parsed, m.conn[c].line)
      /\ t.conn[c].line = <<>>
      /\ t.conn[c].stage = m.conn[c].stage
      /\ t.conn[c].net = m.conn[c].net
      /\ t.conn[c].ended = m.conn[c].ended
      /\ t.conn[c].sent = m.conn[c].sent
      /\ t.conn[c].lost = m.conn[c].lost
      /\ t.conn[c].master = m.conn[c].master
  BY <1>1, LineTakenIs
<1>3. n = IF ~ m.conn[c].initialized
          THEN IF line = Greeting THEN Register(t, c) ELSE Close(t, c)
          ELSE IF m.conn[c].master /\ Len(line) > 1 /\ line[1] = "C"
          THEN ParseCommand(t, line[2])
          ELSE t
  BY DEF ParseLine, LineTaken
<1> HIDE DEF t, n, line
<1>4. t \in Machine
  BY <1>2 DEF But
<1>5. LogKept(t)
  BY <1>1, <1>2, ButKeeps
<1>6. MasterKept(t)
  <2>1. \A d \in Connections : t.conn[d].master = m.conn[d].master
    BY <1>2 DEF But
  <2> QED
    BY <1>1, <1>2, <2>1, SameMaster
<1>7. \A d \in Connections : d # c => SameConnection(t.conn[d], m.conn[d])
  BY <1>2, ButOthersSame
<1>8. Handled(m, t, c)
  BY <1>2, <1>7 DEF Handled
<1>9. CASE n = Register(t, c)
  <2>1. /\ But(t, n, c) /\ MasterKept(n)
        /\ n.conn[c].parsed = t.conn[c].parsed /\ n.conn[c].line = t.conn[c].line
        /\ n.conn[c].stage = t.conn[c].stage /\ n.conn[c].net = t.conn[c].net
        /\ n.conn[c].ended = t.conn[c].ended /\ n.conn[c].sent = t.conn[c].sent
        /\ n.conn[c].lost = t.conn[c].lost
    BY <1>4, <1>6, <1>9, RegisterIs
  <2>2. LogKept(n) /\ n \in Machine
    BY <1>4, <1>5, <2>1, ButKeeps DEF But
  <2>3. \A d \in Connections : d # c => n.conn[d] = t.conn[d]
    BY <2>1 DEF But
  <2>4. Handled(m, n, c)
    BY <1>2, <1>7, <2>1, <2>3 DEF Handled
  <2> QED
    BY <1>2, <2>1, <2>2, <2>4 DEF Kept, n
<1>10. CASE n = Close(t, c)
  <2>1. /\ But(t, n, c) /\ n.has_master = t.has_master
        /\ n.conn[c].master = t.conn[c].master
        /\ n.conn[c].parsed = t.conn[c].parsed /\ n.conn[c].line = t.conn[c].line
        /\ n.conn[c].stage = "closed"
        /\ n.conn[c].ended = t.conn[c].ended /\ n.conn[c].sent = t.conn[c].sent
        /\ n.conn[c].lost = t.conn[c].lost
    BY <1>4, <1>10, CloseIs
  <2>2. LogKept(n) /\ n \in Machine
    BY <1>4, <1>5, <2>1, ButKeeps DEF But
  <2>3. \A d \in Connections : d # c => n.conn[d] = t.conn[d]
    BY <2>1 DEF But
  <2>4. MasterKept(n)
    <3>1. \A d \in Connections : n.conn[d].master = t.conn[d].master
      BY <2>1, <2>3
    <3> QED
      BY <1>6, <2>1, <3>1, SameMaster
  <2>5. Handled(m, n, c)
    BY <1>2, <1>7, <2>1, <2>3 DEF Handled
  <2> QED
    BY <1>2, <2>1, <2>2, <2>4, <2>5 DEF Kept, n
<1>11. CASE n = ParseCommand(t, line[2])
  <2>1. n \in Machine /\ SameConnections(t, n) /\ LogKept(n) /\ n.has_master = t.has_master
    BY <1>4, <1>11, ParseCommandIs
  <2>2. MasterKept(n)
    <3>1. \A d \in Connections : n.conn[d].master = t.conn[d].master
      BY <2>1 DEF SameConnections, SameConnection
    <3> QED
      BY <1>6, <2>1, <3>1, SameMaster
  <2>3. Handled(m, n, c)
    BY <1>2, <1>7, <2>1 DEF Handled, SameConnections, SameConnection
  <2>4. n.conn[c].parsed = t.conn[c].parsed /\ n.conn[c].line = t.conn[c].line
    BY <2>1 DEF SameConnections, SameConnection
  <2> QED
    BY <1>2, <2>1, <2>2, <2>3, <2>4 DEF Kept, n
<1>12. CASE n = t
  BY <1>2, <1>4, <1>5, <1>6, <1>8, <1>12 DEF Kept, n
<1> QED
  BY <1>3, <1>9, <1>10, <1>11, <1>12
-----------------------------------------------------------------------------
(***************************************************************************)
(* The stream of bytes.                                                    *)
(***************************************************************************)

\* The bytes that end a line.
Ending(nul) == IF nul THEN 2 ELSE 1

\* The stream W is the lines sent, each with its ending; line i ends at pos[i].
Encoded(W, pos, sent, nul) ==
    /\ W \in Seq(Bytes)
    /\ pos \in [0 .. Len(sent) -> Nat]
    /\ pos[0] = 0
    /\ Len(W) = pos[Len(sent)]
    /\ \A i \in 1 .. Len(sent) :
         /\ pos[i] = pos[i - 1] + Len(sent[i]) + Ending(nul)
         /\ \A j \in 1 .. Len(sent[i]) : W[pos[i - 1] + j] = sent[i][j]
         /\ W[pos[i - 1] + Len(sent[i]) + 1] = "NL"
         /\ nul => W[pos[i]] = "NUL"
    /\ \A i, j \in 0 .. Len(sent) : i <= j => pos[i] <= pos[j]

\* Byte p has been worked on: the lines before it are parsed, and text is what there
\* is of the line it belongs to.
At(pos, sent, nul, p, parsed, text) ==
    /\ Len(parsed) <= Len(sent)
    /\ \A i \in 1 .. Len(parsed) : parsed[i] = sent[i]
    /\ \/ /\ p = pos[Len(parsed)] + Len(text)
          /\ text # <<>> => Len(parsed) < Len(sent)
          /\ Len(parsed) < Len(sent) =>
               /\ Len(text) <= Len(sent[Len(parsed) + 1])
               /\ \A j \in 1 .. Len(text) : text[j] = sent[Len(parsed) + 1][j]
       \/ /\ nul
          /\ Len(parsed) > 0
          /\ text = <<>>
          /\ p = pos[Len(parsed)] - 1

\* Lines are made of letters.
LEMMA SentLetters ==
    ASSUME NEW sent \in Seq(ClientLines), NEW i \in 1 .. Len(sent)
    PROVE  /\ sent[i] \in Seq(Letters) /\ Len(sent[i]) \in Nat
           /\ \A j \in 1 .. Len(sent[i]) : sent[i][j] # "NL" /\ sent[i][j] # "NUL"
<1>1. sent[i] \in Seq(Letters)
  BY ClientAssumption, ElementOfSeq
<1>2. \A j \in 1 .. Len(sent[i]) : sent[i][j] \in Letters
  BY <1>1, ElementOfSeq
<1> QED
  BY <1>1, <1>2 DEF Letters

\* What the next byte is, and what is next after it.
LEMMA NextByte ==
    ASSUME NEW sent \in Seq(ClientLines), NEW nul \in BOOLEAN, NEW W, NEW pos,
           Encoded(W, pos, sent, nul), NEW p \in Nat, p < Len(W),
           NEW parsed \in Seq(Seq(Letters)), NEW text \in Seq(Letters),
           At(pos, sent, nul, p, parsed, text)
    PROVE  \/ /\ W[p + 1] = "NL"
              /\ At(pos, sent, nul, p + 1, Append(parsed, text), <<>>)
           \/ /\ W[p + 1] = "NUL"
              /\ text = <<>>
              /\ At(pos, sent, nul, p + 1, parsed, <<>>)
           \/ /\ W[p + 1] \in Letters
              /\ At(pos, sent, nul, p + 1, parsed, Append(text, W[p + 1]))
<1> DEFINE k == Len(parsed)
           e == Ending(nul)
<1>0. k \in Nat /\ Len(text) \in Nat /\ Len(sent) \in Nat /\ k <= Len(sent)
  BY DEF At
<1>1. CASE nul /\ k > 0 /\ text = <<>> /\ p = pos[k] - 1
  <2>1. k \in 1 .. Len(sent) /\ pos[k] \in Nat
    BY <1>0, <1>1 DEF Encoded
  <2>2. W[p + 1] = "NUL" /\ p + 1 = pos[k]
    <3>1. nul => W[pos[k]] = "NUL"
      BY <2>1 DEF Encoded
    <3>2. p + 1 = pos[k]
      BY <1>1, <2>1
    <3> QED
      BY <1>1, <3>1, <3>2
  <2>3. At(pos, sent, nul, p + 1, parsed, <<>>)
    <3>1. Len(<<>>) = 0 /\ \A j \in 1 .. 0 : FALSE
      OBVIOUS
    <3>2. k < Len(sent) => Len(sent[k + 1]) \in Nat
      <4>1. k < Len(sent) => k + 1 \in 1 .. Len(sent)
        BY <1>0
      <4> QED
        BY <4>1, SentLetters
    <3>3. p + 1 = pos[k] + Len(<<>>)
      BY <2>1, <2>2, <3>1
    <3> QED
      BY <1>0, <2>2, <3>1, <3>2, <3>3 DEF At
  <2> QED
    BY <1>1, <2>2, <2>3
<1>2. CASE ~ (nul /\ k > 0 /\ text = <<>> /\ p = pos[k] - 1)
  <2>1. /\ p = pos[k] + Len(text)
        /\ text # <<>> => k < Len(sent)
        /\ k < Len(sent) =>
             /\ Len(text) <= Len(sent[k + 1])
             /\ \A j \in 1 .. Len(text) : text[j] = sent[k + 1][j]
    BY <1>2 DEF At
  <2>2. k < Len(sent)
    <3> SUFFICES ASSUME k = Len(sent) PROVE FALSE
      BY <1>0
    <3>1. text = <<>> /\ Len(<<>>) = 0
      BY <2>1
    <3>2. p = pos[Len(sent)]
      BY <2>1, <3>1, <1>0 DEF Encoded
    <3> QED
      BY <3>2 DEF Encoded
  <2>3. k + 1 \in 1 .. Len(sent) /\ k \in 0 .. Len(sent) /\ (k + 1) - 1 = k
    BY <1>0, <2>2
  <2>4. pos[k] \in Nat /\ pos[k + 1] \in Nat
    BY <2>3 DEF Encoded
  <2>5. /\ sent[k + 1] \in Seq(Letters) /\ Len(sent[k + 1]) \in Nat
        /\ \A j \in 1 .. Len(sent[k + 1]) : sent[k + 1][j] # "NL" /\ sent[k + 1][j] # "NUL"
    BY <2>3, SentLetters
  <2>6. /\ pos[k + 1] = pos[k] + Len(sent[k + 1]) + e
        /\ \A j \in 1 .. Len(sent[k + 1]) : W[pos[k] + j] = sent[k + 1][j]
        /\ W[pos[k] + Len(sent[k + 1]) + 1] = "NL"
    BY <2>3 DEF Encoded
  <2>7. CASE Len(text) < Len(sent[k + 1])
    <3> DEFINE j == Len(text) + 1
               new == Append(text, W[p + 1])
    <3>1. j \in 1 .. Len(sent[k + 1]) /\ p + 1 = pos[k] + j
      <4>1. p = pos[k] + Len(text)
        BY <2>1
      <4>2. p + 1 = pos[k] + j
        <5>1. \A a \in Nat, b \in Nat : p = a + b => p + 1 = a + (b + 1)
          OBVIOUS
        <5>2. p + 1 = pos[k] + (Len(text) + 1)
          BY <1>0, <2>4, <4>1, <5>1
        <5> QED
          BY <5>2
      <4>3. j \in 1 .. Len(sent[k + 1])
        BY <1>0, <2>5, <2>7
      <4> QED
        BY <4>2, <4>3
    <3>2. W[p + 1] = sent[k + 1][j] /\ W[p + 1] \in Letters
      BY <2>5, <2>6, <3>1, ElementOfSeq
    <3>3. /\ new \in Seq(Letters) /\ Len(new) = j /\ new[j] = sent[k + 1][j]
          /\ \A i \in 1 .. Len(text) : new[i] = text[i]
      BY <3>2
    <3>4. \A i \in 1 .. j : i = j \/ i \in 1 .. Len(text)
      BY <1>0
    <3>5. \A i \in 1 .. Len(new) : new[i] = sent[k + 1][i]
      <4> HIDE DEF new
      <4> QED
        BY <2>1, <2>2, <3>3, <3>4
    <3>6. At(pos, sent, nul, p + 1, parsed, new)
      <4>1. \A i \in 1 .. Len(parsed) : parsed[i] = sent[i]
        BY DEF At
      <4>2. Len(new) <= Len(sent[k + 1]) /\ p + 1 = pos[k] + Len(new)
        BY <3>1, <3>3
      <4> HIDE DEF new
      <4> QED
        BY <1>0, <2>2, <3>5, <4>1, <4>2 DEF At
    <3> QED
      BY <3>2, <3>6
  <2>8. CASE Len(text) = Len(sent[k + 1])
    <3> DEFINE new == Append(parsed, text)
    <3>1. W[p + 1] = "NL" /\ p + 1 = pos[k] + Len(sent[k + 1]) + 1
      <4>1. p + 1 = pos[k] + Len(sent[k + 1]) + 1
        BY <1>0, <2>1, <2>4, <2>8
      <4> QED
        BY <2>6, <4>1
    <3>2. text = sent[k + 1]
      BY <2>1, <2>2, <2>5, <2>8, SeqEqual
    <3>3. /\ new \in Seq(Seq(Letters)) /\ Len(new) = k + 1 /\ new[k + 1] = text
          /\ \A i \in 1 .. k : new[i] = parsed[i]
      OBVIOUS
    <3>4. \A i \in 1 .. k + 1 : i = k + 1 \/ i \in 1 .. k
      BY <1>0
    <3>5. \A i \in 1 .. Len(new) : new[i] = sent[i]
      <4>1. \A i \in 1 .. k : parsed[i] = sent[i]
        BY DEF At
      <4> HIDE DEF new
      <4> QED
        BY <3>2, <3>3, <3>4, <4>1
    <3>6. Len(<<>>) = 0 /\ \A j \in 1 .. 0 : FALSE
      OBVIOUS
    <3>7. Len(new) < Len(sent) => Len(sent[Len(new) + 1]) \in Nat
      <4>1. Len(new) < Len(sent) => Len(new) + 1 \in 1 .. Len(sent)
        BY <1>0, <3>3
      <4> HIDE DEF new
      <4> QED
        BY <4>1, SentLetters
    <3> HIDE DEF new
    <3>8. Len(new) <= Len(sent) /\ Len(new) > 0
      BY <1>0, <2>2, <3>3
    <3>9. At(pos, sent, nul, p + 1, new, <<>>)
      <4>1. CASE nul
        <5>1. p + 1 = pos[Len(new)] - 1
          <6>1. e = 2
            BY <4>1 DEF Ending
          <6>2. pos[k + 1] = pos[k] + Len(sent[k + 1]) + 2
            BY <2>6, <6>1
          <6>3. \A a, b, c, d \in Nat : d = a + b + 2 /\ c + 1 = a + b + 1 => c + 1 = d - 1
            OBVIOUS
          <6>4. p + 1 = pos[k + 1] - 1
            BY <2>4, <2>5, <3>1, <6>2, <6>3
          <6> QED
            BY <3>3, <6>4
        <5> QED
          BY <3>5, <3>8, <4>1, <5>1 DEF At
      <4>2. CASE ~ nul
        <5>1. p + 1 = pos[Len(new)] + Len(<<>>)
          <6>1. e = 1
            BY <4>2 DEF Ending
          <6>2. pos[k + 1] = pos[k] + Len(sent[k + 1]) + 1
            BY <2>6, <6>1
          <6>3. p + 1 = pos[k + 1] + 0
            BY <2>4, <3>1, <6>2
          <6> QED
            BY <3>3, <3>6, <6>3
        <5> QED
          BY <3>5, <3>6, <3>7, <3>8, <5>1 DEF At
      <4> QED
        BY <4>1, <4>2
    <3> QED
      BY <3>1, <3>9 DEF new
  <2> QED
    BY <1>0, <2>1, <2>2, <2>5, <2>7, <2>8
<1> QED
  BY <1>1, <1>2
-----------------------------------------------------------------------------
(***************************************************************************)
(* The bytes of a read.                                                    *)
(***************************************************************************)

\* Induction over the numbers up to n, for a property given as the set of the
\* numbers that have it.
LEMMA UpTo ==
    ASSUME NEW n \in Nat, NEW S, 0 \in S, \A i \in 1 .. n : i - 1 \in S => i \in S
    PROVE  n \in S
<1> DEFINE wrong == {i \in 0 .. n : i \notin S}
           R == {ss \in Nat \X Nat : ss[1] < ss[2]}
<1>1. SUFFICES ASSUME wrong # {} PROVE FALSE
  OBVIOUS
<1>2. wrong \subseteq Nat
  OBVIOUS
<1>3. IsWellFoundedOn(R, Nat)
  BY NatLessThanWellFounded DEF OpToRel
<1>4. PICK x \in wrong : \A y \in wrong : ~ (<<y, x>> \in R)
  <2> HIDE DEF R, wrong
  <2> QED
    BY <1>1, <1>2, <1>3, WFMin
<1>5. x \in 1 .. n /\ x - 1 \in 0 .. n /\ <<x - 1, x>> \in R
  BY <1>4
<1> QED
  BY <1>4, <1>5

\* acc is the loop over the first n bytes.
IsLoop(acc, n, m, c, bytes) ==
    acc = [i \in 0 .. n |-> IF i = 0 THEN [m |-> m, seg |-> <<>>]
                            ELSE Byte(acc[i - 1], c, bytes[i])]

\* The loop is a function: it can be carried on from every byte.
LEMMA ThroughIs ==
    ASSUME NEW m, NEW c, NEW bytes, Len(bytes) \in Nat
    PROVE  \E acc : /\ acc[0] = [m |-> m, seg |-> <<>>]
                    /\ \A i \in 1 .. Len(bytes) : acc[i] = Byte(acc[i - 1], c, bytes[i])
                    /\ Through(m, c, bytes) = acc[Len(bytes)]
<1> DEFINE N == Len(bytes)
           a == [m |-> m, seg |-> <<>>]
           S == {n \in 0 .. N : \E acc : IsLoop(acc, n, m, c, bytes)}
<1>1. 0 \in S
  <2> DEFINE f == [i \in 0 .. 0 |-> a]
  <2>1. f = [i \in 0 .. 0 |-> IF i = 0 THEN a ELSE Byte(f[i - 1], c, bytes[i])]
    <3>1. \A i \in 0 .. 0 : i = 0
      OBVIOUS
    <3> HIDE DEF a
    <3> QED
      BY <3>1
  <2>2. IsLoop(f, 0, m, c, bytes)
    BY <2>1 DEF IsLoop
  <2> HIDE DEF f
  <2> QED
    BY <2>2
<1>2. ASSUME NEW n \in 1 .. N, n - 1 \in S
      PROVE  n \in S
  <2>1. PICK f : IsLoop(f, n - 1, m, c, bytes)
    BY <1>2
  <2> DEFINE g == [i \in 0 .. n |-> IF i = n THEN Byte(f[n - 1], c, bytes[n]) ELSE f[i]]
  <2>2. \A i \in 0 .. n - 1 : g[i] = f[i]
    OBVIOUS
  <2>3. ASSUME NEW i \in 0 .. n
        PROVE  g[i] = IF i = 0 THEN a ELSE Byte(g[i - 1], c, bytes[i])
    <3>1. CASE i = 0
      <4>1. 0 \in 0 .. n - 1
        OBVIOUS
      <4>2. g[0] = f[0] /\ f[0] = a
        BY <2>1, <2>2, <4>1 DEF IsLoop
      <4> QED
        BY <3>1, <4>2
    <3>2. CASE i = n
      <4>1. n - 1 \in 0 .. n - 1 /\ n # 0
        OBVIOUS
      <4>2. g[n] = Byte(f[n - 1], c, bytes[n]) /\ g[n - 1] = f[n - 1]
        BY <2>2, <4>1
      <4> HIDE DEF g
      <4> QED
        BY <3>2, <4>1, <4>2
    <3>3. CASE i # 0 /\ i # n
      <4>1. i \in 0 .. n - 1 /\ i - 1 \in 0 .. n - 1
        BY <3>3
      <4>2. g[i] = f[i] /\ g[i - 1] = f[i - 1]
        BY <2>2, <4>1
      <4>3. f[i] = Byte(f[i - 1], c, bytes[i])
        BY <2>1, <3>3, <4>1 DEF IsLoop
      <4> HIDE DEF g
      <4> QED
        BY <3>3, <4>2, <4>3
    <3> QED
      BY <3>1, <3>2, <3>3
  <2>4. IsLoop(g, n, m, c, bytes)
    <3>1. g = [i \in 0 .. n |-> g[i]]
      OBVIOUS
    <3> HIDE DEF g
    <3> QED
      BY <2>3, <3>1 DEF IsLoop
  <2> HIDE DEF g
  <2> QED
    BY <2>4
<1>3. N \in S
  <2> HIDE DEF S
  <2> QED
    BY <1>1, <1>2, UpTo
<1> DEFINE Is(f) == IsLoop(f, N, m, c, bytes)
<1>4. PICK acc : Is(acc) /\ Through(m, c, bytes) = acc[N]
  <2>1. \E f : Is(f)
    BY <1>3
  <2>2. Through(m, c, bytes) = (CHOOSE f : Is(f))[N]
    BY DEF Through, IsLoop
  <2> HIDE DEF Is
  <2> QED
    BY <2>1, <2>2
<1>5. acc[0] = a
  <2>1. 0 \in 0 .. N
    OBVIOUS
  <2> HIDE DEF a
  <2> QED
    BY <1>4, <2>1 DEF IsLoop, a
<1>6. ASSUME NEW i \in 1 .. N
      PROVE  acc[i] = Byte(acc[i - 1], c, bytes[i])
  <2>1. i \in 0 .. N /\ i # 0
    OBVIOUS
  <2> QED
    BY <1>4, <2>1 DEF IsLoop
<1> QED
  BY <1>4, <1>5, <1>6
\* The lines parsed are the first lines sent.
FirstLines(parsed, sent) ==
    Len(parsed) <= Len(sent) /\ \A i \in 1 .. Len(parsed) : parsed[i] = sent[i]

\* What holds in the loop, p bytes of the stream having been worked on.
ByteInv(acc, m, c, pos, nul, p) ==
    /\ acc \in [m : Machine, seg : Seq(Letters)]
    /\ Kept(acc.m)
    /\ Handled(m, acc.m, c)
    /\ ~ acc.m.conn[c].lost /\ acc.m.conn[c].stage = "closed" =>
         FirstLines(acc.m.conn[c].parsed, acc.m.conn[c].sent)
    /\ ~ acc.m.conn[c].lost /\ acc.m.conn[c].stage = "open" =>
         At(pos, acc.m.conn[c].sent, nul, p, acc.m.conn[c].parsed,
            acc.m.conn[c].line \o acc.seg)

\* Handled is transitive.
LEMMA HandledTwice ==
    ASSUME NEW m, NEW n, NEW o, NEW c, Handled(m, n, c), Handled(n, o, c),
           n.conn[c].stage = "open"
    PROVE  Handled(m, o, c)
BY DEF Handled, SameConnection

\* Nothing is added by an empty piece, and nothing comes of empty pieces.
LEMMA NoPiece ==
    ASSUME NEW s \in Seq(Letters), NEW t \in Seq(Letters)
    PROVE  s \o <<>> = s /\ (s \o t = <<>> => s = <<>>)
<1>1. s \o t \in Seq(Letters) /\ Len(s \o t) = Len(s) + Len(t)
  BY ConcatProperties
<1>2. <<>> \in Seq(Letters) /\ Len(<<>>) = 0
  OBVIOUS
<1>3. s \o <<>> = s
  BY ConcatEmptySeq
<1>4. ASSUME s \o t = <<>> PROVE s = <<>>
  <2>1. Len(s) + Len(t) = 0 /\ Len(s) \in Nat /\ Len(t) \in Nat
    BY <1>1, <1>2, <1>4
  <2>2. Len(s) = 0
    BY <2>1
  <2> QED
    BY <2>2, EmptySeq
<1> QED
  BY <1>3, <1>4

\* Pieces are put together.
LEMMA Pieces ==
    ASSUME NEW s \in Seq(Letters), NEW t \in Seq(Letters), NEW b \in Letters
    PROVE  /\ s \o t \in Seq(Letters)
           /\ s \o Append(t, b) = Append(s \o t, b)
<1>1. s \o t \in Seq(Letters) /\ Len(s \o t) = Len(s) + Len(t)
  BY ConcatProperties
<1>2. s \o Append(t, b) = Append(s \o t, b)
  <2> DEFINE u == Append(t, b)
             l == s \o u
             v == s \o t
             r == Append(v, b)
  <2>1. /\ u \in Seq(Letters) /\ Len(u) = Len(t) + 1 /\ u[Len(t) + 1] = b
        /\ \A i \in 1 .. Len(t) : u[i] = t[i]
    OBVIOUS
  <2> HIDE DEF u
  <2>2. /\ l \in Seq(Letters) /\ Len(l) = Len(s) + Len(u)
        /\ \A i \in 1 .. Len(s) + Len(u) : l[i] = IF i <= Len(s) THEN s[i] ELSE u[i - Len(s)]
    BY <2>1, ConcatProperties
  <2>3. /\ v \in Seq(Letters) /\ Len(v) = Len(s) + Len(t)
        /\ \A i \in 1 .. Len(s) + Len(t) : v[i] = IF i <= Len(s) THEN s[i] ELSE t[i - Len(s)]
    BY ConcatProperties
  <2> HIDE DEF l, v
  <2>4. /\ r \in Seq(Letters) /\ Len(r) = Len(v) + 1 /\ r[Len(v) + 1] = b
        /\ \A i \in 1 .. Len(v) : r[i] = v[i]
    BY <2>3
  <2> HIDE DEF r
  <2>5. Len(l) = Len(r) /\ Len(s) \in Nat /\ Len(t) \in Nat
    BY <2>1, <2>2, <2>3, <2>4
  <2>6. ASSUME NEW i \in 1 .. Len(l)
        PROVE  l[i] = r[i]
    <3>1. CASE i = Len(s) + Len(t) + 1
      <4>1. i \in 1 .. Len(s) + Len(u) /\ ~ (i <= Len(s)) /\ i - Len(s) = Len(t) + 1
        BY <2>1, <2>5, <3>1
      <4>2. i = Len(v) + 1
        BY <2>3, <3>1
      <4> QED
        BY <2>1, <2>2, <2>4, <4>1, <4>2
    <3>2. CASE i # Len(s) + Len(t) + 1
      <4>1. i \in 1 .. Len(s) + Len(t) /\ i \in 1 .. Len(s) + Len(u) /\ i \in 1 .. Len(v)
        BY <2>1, <2>2, <2>3, <2>5, <3>2
      <4>2. r[i] = IF i <= Len(s) THEN s[i] ELSE t[i - Len(s)]
        BY <2>3, <2>4, <4>1
      <4>3. l[i] = IF i <= Len(s) THEN s[i] ELSE u[i - Len(s)]
        BY <2>2, <4>1
      <4>4. ~ (i <= Len(s)) => i - Len(s) \in 1 .. Len(t)
        BY <2>5, <4>1
      <4> QED
        BY <2>1, <4>2, <4>3, <4>4
    <3> QED
      BY <3>1, <3>2
  <2>7. l = r
    BY <2>2, <2>4, <2>5, <2>6, SeqEqual
  <2> QED
    BY <2>7 DEF l, r, u, v
<1> QED
  BY <1>1, <1>2

\* What a connection's record holds.
LEMMA ConnectionOf ==
    ASSUME NEW m \in Machine, NEW c \in Connections
    PROVE  /\ m.conn[c] \in Connection
           /\ m.conn[c].line \in Seq(Letters)
           /\ m.conn[c].parsed \in Seq(Seq(Letters))
           /\ m.conn[c].sent \in Seq(ClientLines)
           /\ m.conn[c].net \in Seq(Bytes)
           /\ m.conn[c].lost \in BOOLEAN
BY DEF Machine, Connection

\* One byte: b is the next byte of the stream, if no piece of it has been lost.
LEMMA ByteKeeps ==
    ASSUME NEW acc, NEW m \in Machine, NEW c \in Connections, NEW W, NEW pos,
           NEW nul \in BOOLEAN, NEW p \in Nat, NEW b \in Bytes,
           ByteInv(acc, m, c, pos, nul, p),
           ~ m.conn[c].lost =>
             Encoded(W, pos, m.conn[c].sent, nul) /\ p < Len(W) /\ b = W[p + 1]
    PROVE  ByteInv(Byte(acc, c, b), m, c, pos, nul, p + 1)
<1> DEFINE o == acc.m
           r == o.conn[c]
           text == r.line \o acc.seg
           new == Byte(acc, c, b)
<1>1. /\ Kept(o) /\ o \in Machine /\ acc.seg \in Seq(Letters) /\ Handled(m, o, c)
      /\ r.sent = m.conn[c].sent /\ r.lost = m.conn[c].lost
      /\ r.stage \in {"open", "closed"}
  BY DEF ByteInv, Kept, Handled
<1>2. /\ r.line \in Seq(Letters) /\ r.parsed \in Seq(Seq(Letters))
      /\ r.sent \in Seq(ClientLines)
  BY <1>1, ConnectionOf
<1>3. CASE r.stage = "closed"
  <2>1. new = acc
    BY <1>3 DEF Byte
  <2> QED
    BY <1>3, <2>1 DEF ByteInv
<1>4. CASE r.stage = "open"
  <2>1. text \in Seq(Letters)
    <3> HIDE DEF r
    <3> QED
      BY <1>1, <1>2, ConcatProperties
  <2>2. ASSUME ~ r.lost
        PROVE  \/ b = "NL" /\ At(pos, r.sent, nul, p + 1, Append(r.parsed, text), <<>>)
               \/ b = "NUL" /\ text = <<>> /\ At(pos, r.sent, nul, p + 1, r.parsed, <<>>)
               \/ b \in Letters /\ At(pos, r.sent, nul, p + 1, r.parsed, Append(text, b))
    <3>1. /\ Encoded(W, pos, r.sent, nul) /\ p < Len(W) /\ b = W[p + 1]
          /\ At(pos, r.sent, nul, p, r.parsed, text)
      BY <1>1, <1>4, <2>2 DEF ByteInv
    <3> HIDE DEF text, r
    <3> QED
      BY <1>2, <2>1, <3>1, NextByte
  <2>3. "NL" \notin Letters /\ "NUL" \notin Letters /\ "NL" # "NUL"
    BY DEF Letters
  <2>4. CASE b = "NL"
    <3> DEFINE q == Received(o, c, acc.seg)
               n == ParseLine(q, c)
    <3>1. new = [m |-> n, seg |-> <<>>]
      BY <1>4, <2>4 DEF Byte
    <3>2. /\ But(o, q, c)
          /\ q.has_master = o.has_master
          /\ q.conn[c].parsed = r.parsed
          /\ q.conn[c].line = text
          /\ q.conn[c].stage = r.stage
          /\ q.conn[c].net = r.net
          /\ q.conn[c].ended = r.ended
          /\ q.conn[c].sent = r.sent
          /\ q.conn[c].lost = r.lost
          /\ q.conn[c].master = r.master
      <4> HIDE DEF o
      <4> QED
        BY <1>1, ReceivedIs
    <3> HIDE DEF q
    <3>3. LogKept(q)
      BY <1>1, <3>2, ButKeeps DEF Kept
    <3>4. MasterKept(q)
      <4>1. \A d \in Connections : q.conn[d].master = o.conn[d].master
        BY <3>2 DEF But
      <4> QED
        BY <1>1, <3>2, <4>1, SameMaster DEF Kept
    <3>5. Kept(q)
      BY <3>2, <3>3, <3>4 DEF Kept, But
    <3>6. Handled(o, q, c)
      BY <1>4, <3>2, ButOthersSame DEF Handled
    <3>7. /\ Kept(n) /\ Handled(q, n, c)
          /\ n.conn[c].parsed = Append(r.parsed, text) /\ n.conn[c].line = <<>>
      BY <1>4, <3>2, <3>5, ParseLineIs
    <3> HIDE DEF n
    <3>8. Handled(o, n, c)
      BY <1>4, <3>2, <3>6, <3>7, HandledTwice
    <3>9. Handled(m, n, c)
      BY <1>1, <1>4, <3>8, HandledTwice
    <3>10. n.conn[c].sent = r.sent /\ n.conn[c].lost = r.lost
      BY <3>8 DEF Handled
    <3>11. ~ n.conn[c].lost =>
              At(pos, n.conn[c].sent, nul, p + 1, n.conn[c].parsed, <<>>)
      BY <2>2, <2>3, <2>4, <3>7, <3>10
    <3>12. n.conn[c].line \o <<>> = <<>> /\ <<>> \in Seq(Letters)
      <4>1. <<>> \in Seq(Letters)
        OBVIOUS
      <4>2. <<>> \o <<>> = <<>>
        BY <4>1, ConcatEmptySeq
      <4> QED
        BY <3>7, <4>1, <4>2
    <3>13. new.m = n /\ new.seg = <<>> /\ new \in [m : Machine, seg : Seq(Letters)]
      <4>1. n \in Machine
        BY <3>7 DEF Kept
      <4> HIDE DEF new
      <4> QED
        BY <3>1, <3>12, <4>1
    <3> HIDE DEF new
    <3>14. FirstLines(n.conn[c].parsed, n.conn[c].sent) \/ n.conn[c].lost
      BY <3>11 DEF At, FirstLines
    <3>15. ByteInv(new, m, c, pos, nul, p + 1)
      BY <3>7, <3>9, <3>11, <3>12, <3>13, <3>14 DEF ByteInv
    <3> QED
      BY <3>15 DEF new
  <2>5. CASE b = "NUL"
    <3>1. new = [acc EXCEPT !.seg = <<>>]
      BY <1>4, <2>5 DEF Byte
    <3>2. new.m = o /\ new.seg = <<>> /\ new \in [m : Machine, seg : Seq(Letters)]
      <4>1. acc \in [m : Machine, seg : Seq(Letters)] /\ <<>> \in Seq(Letters)
        BY DEF ByteInv
      <4> HIDE DEF new
      <4> QED
        BY <3>1, <4>1
    <3>3. ~ r.lost =>
            text = <<>> /\ At(pos, r.sent, nul, p + 1, r.parsed, <<>>)
      BY <2>2, <2>3, <2>5
    <3>4. r.line \o <<>> = r.line /\ (text = <<>> => r.line = <<>>)
      <4> HIDE DEF r
      <4> QED
        BY <1>1, <1>2, NoPiece
    <3>5. ~ r.lost => At(pos, r.sent, nul, p + 1, r.parsed, r.line \o <<>>)
      <4> HIDE DEF r, text
      <4> QED
        BY <3>3, <3>4
    <3> HIDE DEF new
    <3>6. ByteInv(new, m, c, pos, nul, p + 1)
      BY <1>1, <1>4, <3>2, <3>5 DEF ByteInv
    <3> QED
      BY <3>6 DEF new
  <2>6. CASE b # "NL" /\ b # "NUL"
    <3>1. new = [acc EXCEPT !.seg = Append(acc.seg, b)]
      BY <1>4, <2>6 DEF Byte
    <3>2. b \in Letters
      BY <2>6 DEF Bytes
    <3>3. /\ new.m = o /\ new.seg = Append(acc.seg, b)
          /\ new \in [m : Machine, seg : Seq(Letters)]
      <4>1. acc \in [m : Machine, seg : Seq(Letters)]
        BY DEF ByteInv
      <4> QED
        BY <3>1, <3>2, <4>1
    <3>4. r.line \o Append(acc.seg, b) = Append(text, b)
      <4> HIDE DEF r
      <4> QED
        BY <1>1, <1>2, <3>2, Pieces
    <3>5. ~ r.lost => At(pos, r.sent, nul, p + 1, r.parsed, Append(text, b))
      BY <2>2, <2>6
    <3> HIDE DEF new
    <3>6. ByteInv(new, m, c, pos, nul, p + 1)
      BY <1>1, <1>4, <3>3, <3>4, <3>5 DEF ByteInv
    <3> QED
      BY <3>6 DEF new
  <2> QED
    BY <2>4, <2>5, <2>6
<1> QED
  BY <1>1, <1>3, <1>4
-----------------------------------------------------------------------------
(***************************************************************************)
(* The invariant: the log, the master, and for every connection that the   *)
(* lines parsed, the piece in _line and the bytes on their way are, put    *)
(* together, the stream of what was sent.                                  *)
(***************************************************************************)

\* The connection has come to byte p of the stream W; the rest is on its way.
InStream(r, nul, W, pos, p) ==
    /\ Encoded(W, pos, r.sent, nul)
    /\ p <= Len(W)
    /\ Len(r.net) = Len(W) - p
    /\ \A j \in 1 .. Len(r.net) : r.net[j] = W[p + j]
    /\ At(pos, r.sent, nul, p, r.parsed, r.line)

LinesKept(r, nul) ==
    /\ ~ r.lost => FirstLines(r.parsed, r.sent)
    /\ ~ r.lost /\ r.stage # "closed" => \E W, pos : \E p \in Nat : InStream(r, nul, W, pos, p)

AllLinesKept(m) == \A c \in Connections : LinesKept(m.conn[c], c \in SendsNul)

\* What is kept does not depend on the log.
LEMMA SameLinesKept ==
    ASSUME NEW r, NEW s, NEW nul, LinesKept(r, nul), SameConnection(s, r)
    PROVE  LinesKept(s, nul)
BY DEF LinesKept, SameConnection, InStream

\* The bytes that are read are taken from those on their way.
Taken(m, c, n) ==
    [m EXCEPT !.conn[c].net = SubSeq(@, n + 1, Len(@))]

\* They are the first ones, and nothing else of the connection changes.
LEMMA TakenIs ==
    ASSUME NEW m \in Machine, NEW c \in Connections, NEW n \in 1 .. Len(m.conn[c].net)
    PROVE  /\ But(m, Taken(m, c, n), c)
           /\ Taken(m, c, n).has_master = m.has_master
           /\ Len(Taken(m, c, n).conn[c].net) = Len(m.conn[c].net) - n
           /\ \A j \in 1 .. Len(Taken(m, c, n).conn[c].net) :
                Taken(m, c, n).conn[c].net[j] = m.conn[c].net[n + j]
           /\ Taken(m, c, n).conn[c].parsed = m.conn[c].parsed
           /\ Taken(m, c, n).conn[c].line = m.conn[c].line
           /\ Taken(m, c, n).conn[c].stage = m.conn[c].stage
           /\ Taken(m, c, n).conn[c].sent = m.conn[c].sent
           /\ Taken(m, c, n).conn[c].lost = m.conn[c].lost
           /\ Taken(m, c, n).conn[c].master = m.conn[c].master
<1> DEFINE r == m.conn[c]
           l == SubSeq(r.net, n + 1, Len(r.net))
           q == [r EXCEPT !.net = l]
           t == Taken(m, c, n)
<1>1. /\ m.conn \in [Connections -> Connection] /\ r \in Connection
      /\ r.net \in Seq(Bytes) /\ Len(r.net) \in Nat
  BY DEF Machine, Connection
<1>2. l \in Seq(Bytes) /\ Len(l) = Len(r.net) - n /\ \A j \in 1 .. Len(l) : l[j] = r.net[n + j]
  <2> HIDE DEF r
  <2>1. n + 1 \in 1 .. Len(r.net) + 1 /\ Len(r.net) \in n .. Len(r.net)
    BY <1>1 DEF r
  <2>2. l \in Seq(Bytes) /\ Len(l) = Len(r.net) - n
    BY <1>1, <2>1, SubSeqProperties DEF r
  <2>3. ASSUME NEW j \in 1 .. Len(l) PROVE l[j] = r.net[n + j]
    BY <1>1, <2>1, <2>2, SubSeqProperties DEF r
  <2> QED
    BY <2>2, <2>3
<1>3. q \in Connection
  BY <1>1, <1>2 DEF Connection
<1>4. t.conn = [m.conn EXCEPT ![c] = q]
  BY <1>1 DEF Taken, Machine, Connection
<1>5. t.conn \in [Connections -> Connection] /\ t.conn[c] = q
      /\ \A d \in Connections : d # c => t.conn[d] = m.conn[d]
  <2> HIDE DEF q, t
  <2> QED
    BY <1>1, <1>3, <1>4
<1>6. /\ t.arena = m.arena /\ t.accepting = m.accepting /\ t.log = m.log
      /\ t.has_master = m.has_master
  BY DEF Taken, Machine
<1>7. t = [m EXCEPT !.conn = t.conn]
  BY DEF Taken, Machine
<1>8. t \in Machine
  BY <1>5, <1>7, MachineTyped
<1>9. /\ q.net = l /\ q.begun = r.begun /\ q.stage = r.stage /\ q.parsed = r.parsed
      /\ q.line = r.line /\ q.sent = r.sent /\ q.lost = r.lost /\ q.master = r.master
  BY <1>1 DEF Connection
<1>10. But(m, t, c)
  BY <1>5, <1>6, <1>8, <1>9 DEF But
<1> HIDE DEF q, t, l
<1> QED
  BY <1>2, <1>5, <1>6, <1>9, <1>10 DEF t

\* A piece is lost.
Lost(m, c) == [m EXCEPT !.conn[c].lost = TRUE]

\* Nothing else of the connection changes.
LEMMA LostIs ==
    ASSUME NEW m \in Machine, NEW c \in Connections
    PROVE  /\ But(m, Lost(m, c), c)
           /\ Lost(m, c).has_master = m.has_master
           /\ Lost(m, c).conn[c].lost
           /\ Lost(m, c).conn[c].master = m.conn[c].master
<1> DEFINE r == m.conn[c]
           q == [r EXCEPT !.lost = TRUE]
           t == Lost(m, c)
<1>1. /\ m.conn \in [Connections -> Connection] /\ r \in Connection
  BY DEF Machine
<1>2. q \in Connection
  BY <1>1 DEF Connection
<1>3. t.conn = [m.conn EXCEPT ![c] = q]
  BY <1>1 DEF Lost, Machine, Connection
<1>4. t.conn \in [Connections -> Connection] /\ t.conn[c] = q
      /\ \A d \in Connections : d # c => t.conn[d] = m.conn[d]
  <2> HIDE DEF q, t
  <2> QED
    BY <1>1, <1>2, <1>3
<1>5. /\ t.arena = m.arena /\ t.accepting = m.accepting /\ t.log = m.log
      /\ t.has_master = m.has_master
  BY DEF Lost, Machine
<1>6. t = [m EXCEPT !.conn = t.conn]
  BY DEF Lost, Machine
<1>7. t \in Machine
  BY <1>4, <1>6, MachineTyped
<1>8. q.lost /\ q.begun = r.begun /\ q.stage = r.stage /\ q.master = r.master
  BY <1>1 DEF Connection
<1>9. But(m, t, c)
  BY <1>4, <1>5, <1>7, <1>8 DEF But
<1> HIDE DEF q, t
<1> QED
  BY <1>4, <1>5, <1>8, <1>9 DEF t
\* What is kept if only c changes, and is neither let in nor made master.
LEMMA ButKept ==
    ASSUME NEW m, NEW n, NEW c \in Connections, Kept(m), But(m, n, c),
           n.has_master = m.has_master, n.conn[c].master = m.conn[c].master
    PROVE  Kept(n)
<1>1. LogKept(n)
  BY ButKeeps DEF Kept
<1>2. \A d \in Connections : n.conn[d].master = m.conn[d].master
  BY DEF But
<1>3. MasterKept(n)
  BY <1>2, SameMaster DEF Kept
<1> QED
  BY <1>1, <1>3 DEF Kept, But

\* The lines of the other connections are kept.
LEMMA OthersLinesKept ==
    ASSUME NEW m, NEW n, NEW c \in Connections, AllLinesKept(m),
           \A d \in Connections : d # c => SameConnection(n.conn[d], m.conn[d]),
           LinesKept(n.conn[c], c \in SendsNul)
    PROVE  AllLinesKept(n)
<1> SUFFICES ASSUME NEW d \in Connections
             PROVE  LinesKept(n.conn[d], d \in SendsNul)
  BY DEF AllLinesKept
<1>1. CASE d = c
  BY <1>1
<1>2. CASE d # c
  BY <1>2, SameLinesKept DEF AllLinesKept
<1> QED
  BY <1>1, <1>2

\* A read of n bytes leaves the loop with everything kept.
LEMMA ReadKeeps ==
    ASSUME NEW m \in Machine, Kept(m), AllLinesKept(m), NEW c \in Connections,
           m.conn[c].stage = "open", NEW n \in 1 .. Len(m.conn[c].net)
    PROVE  \E W, pos : \E p \in Nat :
              /\ ByteInv(Through(Taken(m, c, n), c, SubSeq(m.conn[c].net, 1, n)),
                         Taken(m, c, n), c, pos, c \in SendsNul, p + n)
              /\ ~ m.conn[c].lost => InStream(m.conn[c], c \in SendsNul, W, pos, p)
<1> DEFINE r == m.conn[c]
           nul == c \in SendsNul
           bytes == SubSeq(r.net, 1, n)
           start == Taken(m, c, n)
<1>1. /\ r.net \in Seq(Bytes) /\ Len(r.net) \in Nat /\ r.lost \in BOOLEAN
      /\ r.line \in Seq(Letters) /\ nul \in BOOLEAN
  BY ConnectionOf
<1>2a. PICK W, pos : \E p \in Nat : ~ r.lost => InStream(r, nul, W, pos, p)
  <2>1. CASE r.lost
    <3>1. 0 \in Nat
      OBVIOUS
    <3> QED
      BY <2>1, <3>1
  <2>2. CASE ~ r.lost
    <3>1. LinesKept(r, nul)
      BY DEF AllLinesKept
    <3> HIDE DEF r, nul
    <3>2. r.stage # "closed"
      BY DEF r
    <3>3. \E x, y : \E z \in Nat : InStream(r, nul, x, y, z)
      BY <2>2, <3>1, <3>2 DEF LinesKept
    <3> QED
      BY <3>3
  <2> QED
    BY <1>1, <2>1, <2>2
<1>2. PICK p \in Nat : ~ r.lost => InStream(r, nul, W, pos, p)
  BY <1>2a
<1>3. Len(bytes) = n /\ \A i \in 1 .. n : bytes[i] = r.net[i] /\ bytes[i] \in Bytes
  <2> HIDE DEF r
  <2>1. \A i \in 1 .. n : r.net[i] \in Bytes
    BY <1>1 DEF r
  <2>2. n \in Nat /\ 1 <= n
    BY <1>1 DEF r
  <2>3. Len(bytes) = n /\ \A i \in 1 .. n : bytes[i] = r.net[i]
    BY <2>1, <2>2, SubSeqProperties
  <2> QED
    BY <2>1, <2>3
<1>4. /\ But(m, start, c) /\ start.has_master = m.has_master
      /\ start.conn[c].parsed = r.parsed /\ start.conn[c].line = r.line
      /\ start.conn[c].stage = r.stage /\ start.conn[c].sent = r.sent
      /\ start.conn[c].lost = r.lost /\ start.conn[c].master = r.master
  BY TakenIs
<1> HIDE DEF start, bytes
<1>5. Kept(start) /\ start \in Machine
  BY <1>4, ButKept DEF Kept
<1>6. PICK acc : /\ acc[0] = [m |-> start, seg |-> <<>>]
                 /\ \A i \in 1 .. Len(bytes) : acc[i] = Byte(acc[i - 1], c, bytes[i])
                 /\ Through(start, c, bytes) = acc[Len(bytes)]
  <2>1. Len(bytes) \in Nat
    BY <1>3
  <2> QED
    BY <2>1, ThroughIs
<1> DEFINE S == {i \in 0 .. n : ByteInv(acc[i], start, c, pos, nul, p + i)}
<1>7. 0 \in S
  <2>1. acc[0].m = start /\ acc[0].seg = <<>> /\ acc[0] \in [m : Machine, seg : Seq(Letters)]
    BY <1>5, <1>6
  <2>2. start.conn[c].line \o <<>> = r.line
    <3> HIDE DEF r
    <3> QED
      BY <1>1, <1>4, NoPiece
  <2>3. Handled(start, start, c)
    BY <1>4 DEF Handled, SameConnection
  <2>4. ~ r.lost => At(pos, r.sent, nul, p, r.parsed, r.line)
    BY <1>2 DEF InStream
  <2>5. start.conn[c].stage # "closed" /\ p + 0 = p
    BY <1>4
  <2>6. ByteInv(acc[0], start, c, pos, nul, p + 0)
    BY <1>4, <1>5, <2>1, <2>2, <2>3, <2>4, <2>5 DEF ByteInv
  <2> QED
    BY <2>6
<1>8. ASSUME NEW i \in 1 .. n, i - 1 \in S
      PROVE  i \in S
  <2>1. /\ ByteInv(acc[i - 1], start, c, pos, nul, p + (i - 1)) /\ i \in Nat
        /\ p + (i - 1) \in Nat /\ p + (i - 1) + 1 = p + i
    BY <1>8
  <2>2. ~ start.conn[c].lost =>
          /\ Encoded(W, pos, start.conn[c].sent, nul)
          /\ p + (i - 1) < Len(W)
          /\ bytes[i] = W[p + (i - 1) + 1]
    <3> SUFFICES ASSUME ~ start.conn[c].lost
                 PROVE  /\ Encoded(W, pos, start.conn[c].sent, nul)
                        /\ p + (i - 1) < Len(W)
                        /\ bytes[i] = W[p + (i - 1) + 1]
      OBVIOUS
    <3>1. InStream(r, nul, W, pos, p)
      BY <1>2, <1>4
    <3>2. i \in 1 .. Len(r.net)
      BY <1>1
    <3>3. Len(W) \in Nat /\ Len(r.net) = Len(W) - p
      <4>1. W \in Seq(Bytes) /\ Len(r.net) = Len(W) - p
        BY <3>1 DEF InStream, Encoded
      <4> QED
        BY <4>1
    <3>4. bytes[i] = W[p + i]
      BY <1>3, <3>1, <3>2 DEF InStream
    <3>5. p + (i - 1) < Len(W)
      BY <1>1, <3>2, <3>3
    <3> QED
      BY <1>4, <2>1, <3>1, <3>4, <3>5 DEF InStream
  <2>3. acc[i] = Byte(acc[i - 1], c, bytes[i]) /\ bytes[i] \in Bytes
    BY <1>3, <1>6
  <2>4. ByteInv(Byte(acc[i - 1], c, bytes[i]), start, c, pos, nul, p + (i - 1) + 1)
    <3> HIDE DEF nul
    <3> QED
      BY <1>1, <1>5, <2>1, <2>2, <2>3, ByteKeeps
  <2>5. ByteInv(acc[i], start, c, pos, nul, p + i)
    BY <2>1, <2>3, <2>4
  <2> QED
    BY <2>5
<1>9. n \in S
  <2>1. n \in Nat
    BY <1>1
  <2> HIDE DEF S
  <2> QED
    BY <1>7, <1>8, <2>1, UpTo
<1>10. ByteInv(Through(start, c, bytes), start, c, pos, nul, p + n)
  BY <1>3, <1>6, <1>9
<1> QED
  BY <1>2, <1>10 DEF start, bytes
\* The end of loop: what is done with the piece left over.
LoopEnd(acc, c, n) ==
    IF acc.m.conn[c].stage = "closed" \/ acc.seg = <<>> THEN acc.m
    ELSE IF n < ReadSize THEN Received(acc.m, c, acc.seg)
    ELSE Lost(acc.m, c)

\* The connection is in the stream when the piece left over is in _line.
LEMMA EndInStream ==
    ASSUME NEW m \in Machine, NEW c \in Connections, NEW n \in 1 .. Len(m.conn[c].net),
           NEW r, NEW nul, NEW W, NEW pos, NEW p \in Nat,
           InStream(m.conn[c], nul, W, pos, p),
           r.net = Taken(m, c, n).conn[c].net, r.sent = m.conn[c].sent,
           At(pos, r.sent, nul, p + n, r.parsed, r.line)
    PROVE  InStream(r, nul, W, pos, p + n)
<1> DEFINE s == m.conn[c]
<1>1. /\ Len(r.net) = Len(s.net) - n
      /\ \A j \in 1 .. Len(r.net) : r.net[j] = s.net[n + j]
  BY TakenIs
<1>2. Len(s.net) \in Nat
  BY ConnectionOf
<1>3. /\ Encoded(W, pos, s.sent, nul) /\ Len(s.net) = Len(W) - p
      /\ \A j \in 1 .. Len(s.net) : s.net[j] = W[p + j]
  BY DEF InStream
<1>4. Len(W) \in Nat
  <2>1. W \in Seq(Bytes)
    BY <1>3 DEF Encoded
  <2> QED
    BY <2>1
<1> HIDE DEF s
<1>5. n \in 1 .. Len(s.net)
  BY DEF s
<1>6. p + n <= Len(W) /\ Len(r.net) = Len(W) - (p + n)
  BY <1>1, <1>2, <1>3, <1>4, <1>5
<1>7. ASSUME NEW j \in 1 .. Len(r.net)
      PROVE  r.net[j] = W[p + n + j]
  <2>1. n + j \in 1 .. Len(s.net) /\ p + (n + j) = p + n + j
    BY <1>1, <1>2, <1>5
  <2> QED
    BY <1>1, <1>3, <2>1
<1> QED
  BY <1>3, <1>6, <1>7 DEF InStream, s

\* loop keeps the log, the master and the lines.
LEMMA LoopKeeps ==
    ASSUME NEW m \in Machine, Kept(m), AllLinesKept(m), NEW c \in Connections,
           m.conn[c].stage = "open", NEW n \in 1 .. Len(m.conn[c].net),
           NEW o, o = LoopEnd(Through(Taken(m, c, n), c, SubSeq(m.conn[c].net, 1, n)), c, n)
    PROVE  Kept(o) /\ AllLinesKept(o)
<1> DEFINE nul == c \in SendsNul
           start == Taken(m, c, n)
<1>1. PICK acc : acc = Through(Taken(m, c, n), c, SubSeq(m.conn[c].net, 1, n))
  OBVIOUS
<1>2. PICK W, pos : \E p \in Nat :
              /\ ByteInv(acc, start, c, pos, nul, p + n)
              /\ ~ m.conn[c].lost => InStream(m.conn[c], nul, W, pos, p)
  BY <1>1, ReadKeeps
<1>3. PICK p \in Nat : /\ ByteInv(acc, start, c, pos, nul, p + n)
                       /\ ~ m.conn[c].lost => InStream(m.conn[c], nul, W, pos, p)
  BY <1>2
<1>4. /\ But(m, start, c)
      /\ start.conn[c].stage = "open" /\ start.conn[c].sent = m.conn[c].sent
      /\ start.conn[c].lost = m.conn[c].lost
  BY TakenIs
<1>5. /\ acc.m \in Machine /\ Kept(acc.m) /\ acc.seg \in Seq(Letters)
      /\ Handled(start, acc.m, c)
  BY <1>3 DEF ByteInv
<1> DEFINE a == acc.m
           r == a.conn[c]
<1>6. /\ r.sent = m.conn[c].sent /\ r.lost = m.conn[c].lost /\ r.stage \in {"open", "closed"}
      /\ r.stage = "open" => r.net = start.conn[c].net
  BY <1>4, <1>5 DEF Handled
<1>7. \A d \in Connections : d # c => SameConnection(a.conn[d], m.conn[d])
  <2>1. \A d \in Connections : d # c => start.conn[d] = m.conn[d]
    BY <1>4 DEF But
  <2> QED
    BY <1>5, <2>1 DEF Handled
<1>8. CASE r.stage = "closed"
  <2>1. o = a
    BY <1>1, <1>8 DEF LoopEnd
  <2>2. LinesKept(r, nul)
    BY <1>3, <1>8 DEF ByteInv, LinesKept
  <2> QED
    BY <1>5, <1>7, <2>1, <2>2, OthersLinesKept
<1>9. CASE r.stage = "open" /\ acc.seg = <<>>
  <2>1. o = a
    BY <1>1, <1>9 DEF LoopEnd
  <2>2. r.line \o acc.seg = r.line
    <3>1. r.line \in Seq(Letters)
      BY <1>5, ConnectionOf
    <3> HIDE DEF r
    <3> QED
      BY <1>9, <3>1, ConcatEmptySeq
  <2>3. ~ r.lost => At(pos, r.sent, nul, p + n, r.parsed, r.line)
    BY <1>3, <1>9, <2>2 DEF ByteInv
  <2>4. ~ r.lost => InStream(r, nul, W, pos, p + n)
    <3> HIDE DEF r, nul
    <3> QED
      BY <1>3, <1>6, <1>9, <2>3, EndInStream
  <2>5. LinesKept(r, nul)
    <3>1. ~ r.lost => FirstLines(r.parsed, r.sent)
      BY <2>3 DEF At, FirstLines
    <3>2. p + n \in Nat
      BY ConnectionOf
    <3> HIDE DEF r, nul
    <3> QED
      BY <2>4, <3>1, <3>2 DEF LinesKept
  <2> QED
    BY <1>5, <1>7, <2>1, <2>5, OthersLinesKept
<1>10. CASE r.stage = "open" /\ acc.seg # <<>> /\ n < ReadSize
  <2>1. o = Received(a, c, acc.seg)
    BY <1>1, <1>10 DEF LoopEnd
  <2>2. /\ But(a, o, c) /\ o.has_master = a.has_master
        /\ o.conn[c].parsed = r.parsed /\ o.conn[c].line = r.line \o acc.seg
        /\ o.conn[c].stage = r.stage /\ o.conn[c].net = r.net
        /\ o.conn[c].sent = r.sent /\ o.conn[c].lost = r.lost
        /\ o.conn[c].master = r.master
    <3>1. PICK x, y : x = a /\ y = acc.seg
      OBVIOUS
    <3>2. x \in Machine /\ y \in Seq(Letters) /\ o = Received(x, c, y)
      BY <1>5, <2>1, <3>1
    <3>3. /\ But(x, o, c) /\ o.has_master = x.has_master
          /\ o.conn[c].parsed = x.conn[c].parsed
          /\ o.conn[c].line = x.conn[c].line \o y
          /\ o.conn[c].stage = x.conn[c].stage /\ o.conn[c].net = x.conn[c].net
          /\ o.conn[c].sent = x.conn[c].sent /\ o.conn[c].lost = x.conn[c].lost
          /\ o.conn[c].master = x.conn[c].master
      BY <3>2, ReceivedIs
    <3> QED
      BY <3>1, <3>3
  <2>3. Kept(o)
    BY <1>5, <2>2, ButKept
  <2> DEFINE q == o.conn[c]
  <2>4. ~ q.lost => At(pos, q.sent, nul, p + n, q.parsed, q.line)
    BY <1>3, <1>10, <2>2 DEF ByteInv
  <2>5. q.net = start.conn[c].net /\ q.sent = m.conn[c].sent /\ q.lost = m.conn[c].lost
    BY <1>6, <1>10, <2>2
  <2>6. ~ q.lost => InStream(q, nul, W, pos, p + n)
    <3> HIDE DEF q, nul
    <3> QED
      BY <1>3, <2>4, <2>5, EndInStream
  <2>7. LinesKept(q, nul)
    <3>1. ~ q.lost => FirstLines(q.parsed, q.sent)
      BY <2>4 DEF At, FirstLines
    <3>2. p + n \in Nat
      BY ConnectionOf
    <3> HIDE DEF q, nul
    <3> QED
      BY <2>6, <3>1, <3>2 DEF LinesKept
  <2>8. \A d \in Connections : d # c => SameConnection(o.conn[d], m.conn[d])
    BY <1>7, <2>2 DEF But
  <2> QED
    BY <2>3, <2>7, <2>8, OthersLinesKept
<1>11. CASE r.stage = "open" /\ acc.seg # <<>> /\ ~ (n < ReadSize)
  <2>1. o = Lost(a, c)
    BY <1>1, <1>11 DEF LoopEnd
  <2>2. /\ But(a, o, c) /\ o.has_master = a.has_master /\ o.conn[c].lost
        /\ o.conn[c].master = r.master
    <3> HIDE DEF a
    <3> QED
      BY <1>5, <2>1, LostIs DEF a
  <2>3. Kept(o)
    BY <1>5, <2>2, ButKept
  <2>4. LinesKept(o.conn[c], nul)
    BY <2>2 DEF LinesKept
  <2>5. \A d \in Connections : d # c => SameConnection(o.conn[d], m.conn[d])
    BY <1>7, <2>2 DEF But
  <2> QED
    BY <2>3, <2>4, <2>5, OthersLinesKept
<1> QED
  BY <1>6, <1>8, <1>9, <1>10, <1>11
-----------------------------------------------------------------------------
(***************************************************************************)
(* A line is sent.                                                         *)
(***************************************************************************)

\* What follows a line.
EndBytes(nul) == IF nul THEN <<"NL", "NUL">> ELSE <<"NL">>

\* v is s and t in a row.
Joined(s, t, v) == s \in Seq(Bytes) /\ t \in Seq(Bytes) /\ v = s \o t

\* Two sequences in a row.
LEMMA TwoJoined ==
    ASSUME NEW s, NEW t, NEW v, Joined(s, t, v)
    PROVE  /\ v \in Seq(Bytes) /\ Len(v) = Len(s) + Len(t)
           /\ \A j \in 1 .. Len(s) + Len(t) : v[j] = IF j <= Len(s) THEN s[j] ELSE t[j - Len(s)]
BY ConcatProperties DEF Joined

\* v is s, t and u in a row.
AllJoined(s, t, u, v) ==
    s \in Seq(Bytes) /\ t \in Seq(Bytes) /\ u \in Seq(Bytes) /\ v = s \o t \o u

\* Three sequences in a row.
LEMMA ThreeJoined ==
    ASSUME NEW s, NEW t, NEW u, NEW v, AllJoined(s, t, u, v)
    PROVE  /\ v \in Seq(Bytes) /\ Len(v) = Len(s) + Len(t) + Len(u)
           /\ \A j \in 1 .. Len(s) : v[j] = s[j]
           /\ \A j \in 1 .. Len(t) : v[Len(s) + j] = t[j]
           /\ \A j \in 1 .. Len(u) : v[Len(s) + Len(t) + j] = u[j]
<1> DEFINE w == s \o t
<1>1. /\ w \in Seq(Bytes) /\ Len(w) = Len(s) + Len(t)
      /\ \A j \in 1 .. Len(s) + Len(t) : w[j] = IF j <= Len(s) THEN s[j] ELSE t[j - Len(s)]
  BY ConcatProperties DEF AllJoined
<1> HIDE DEF w
<1>2. /\ v \in Seq(Bytes) /\ Len(v) = Len(w) + Len(u)
      /\ \A j \in 1 .. Len(w) + Len(u) : v[j] = IF j <= Len(w) THEN w[j] ELSE u[j - Len(w)]
  <2>1. Joined(w, u, v)
    BY <1>1 DEF w, AllJoined, Joined
  <2> QED
    BY <1>1, <2>1, TwoJoined
<1>3. Len(s) \in Nat /\ Len(t) \in Nat /\ Len(u) \in Nat
  BY DEF AllJoined
<1>4. ASSUME NEW j \in 1 .. Len(s) PROVE v[j] = s[j]
  <2>1. j \in 1 .. Len(w) + Len(u) /\ j <= Len(w) /\ j \in 1 .. Len(s) + Len(t) /\ j <= Len(s)
    BY <1>1, <1>3
  <2> QED
    BY <1>1, <1>2, <2>1
<1>5. ASSUME NEW j \in 1 .. Len(t) PROVE v[Len(s) + j] = t[j]
  <2> DEFINE i == Len(s) + j
  <2>1. /\ i \in 1 .. Len(w) + Len(u) /\ i <= Len(w) /\ i \in 1 .. Len(s) + Len(t)
        /\ ~ (i <= Len(s)) /\ i - Len(s) = j
    BY <1>1, <1>3
  <2> HIDE DEF i
  <2>2. v[i] = t[j]
    BY <1>1, <1>2, <2>1
  <2> QED
    BY <2>2 DEF i
<1>6. ASSUME NEW j \in 1 .. Len(u) PROVE v[Len(s) + Len(t) + j] = u[j]
  <2> DEFINE i == Len(s) + Len(t) + j
  <2>1. i \in 1 .. Len(w) + Len(u) /\ ~ (i <= Len(w)) /\ i - Len(w) = j
    BY <1>1, <1>3
  <2> HIDE DEF i
  <2>2. v[i] = u[j]
    BY <1>2, <2>1
  <2> QED
    BY <2>2 DEF i
<1> QED
  BY <1>1, <1>2, <1>3, <1>4, <1>5, <1>6

\* The line is behind all others in the stream.
LEMMA SentEncoded ==
    ASSUME NEW sent \in Seq(ClientLines), NEW line \in ClientLines, NEW nul \in BOOLEAN,
           NEW W, NEW pos, Encoded(W, pos, sent, nul),
           NEW V, AllJoined(W, line, EndBytes(nul), V)
    PROVE  \E new : /\ Encoded(V, new, Append(sent, line), nul)
                    /\ \A i \in 0 .. Len(sent) : new[i] = pos[i]
<1> DEFINE N == Len(sent)
           e == EndBytes(nul)
           end == pos[N] + Len(line) + Ending(nul)
           new == [i \in 0 .. N + 1 |-> IF i = N + 1 THEN end ELSE pos[i]]
           more == Append(sent, line)
<1>1. /\ line \in Seq(Bytes) /\ Len(line) \in Nat /\ N \in Nat /\ W \in Seq(Bytes)
      /\ Len(W) = pos[N] /\ pos \in [0 .. N -> Nat] /\ pos[0] = 0 /\ pos[N] \in Nat
  <2>1. line \in Seq(Letters) /\ Letters \subseteq Bytes
    BY ClientAssumption DEF Bytes
  <2>2. line \in Seq(Bytes) /\ Len(line) \in Nat
    BY <2>1, SeqMonotonic
  <2>3. /\ W \in Seq(Bytes) /\ Len(W) = pos[N] /\ pos \in [0 .. N -> Nat] /\ pos[0] = 0
    BY DEF Encoded
  <2>4. N \in Nat /\ N \in 0 .. N
    OBVIOUS
  <2> QED
    BY <2>2, <2>3, <2>4
<1>2. /\ e \in Seq(Bytes) /\ Len(e) = Ending(nul) /\ Ending(nul) \in Nat
      /\ e[1] = "NL" /\ (nul => e[2] = "NUL")
      /\ 1 \in 1 .. Len(e) /\ (nul => 2 \in 1 .. Len(e))
  <2>1. <<"NL", "NUL">> \in Seq(Bytes) /\ <<"NL">> \in Seq(Bytes)
    BY DEF Bytes
  <2>2. CASE nul
    <3>1. e = <<"NL", "NUL">> /\ Ending(nul) = 2
      BY <2>2 DEF EndBytes, Ending
    <3> QED
      BY <2>1, <3>1
  <2>3. CASE ~ nul
    <3>1. e = <<"NL">> /\ Ending(nul) = 1
      BY <2>3 DEF EndBytes, Ending
    <3> QED
      BY <2>1, <2>3, <3>1
  <2> QED
    BY <2>2, <2>3
<1> HIDE DEF e
<1>3. /\ V \in Seq(Bytes) /\ Len(V) = Len(W) + Len(line) + Len(e)
      /\ \A j \in 1 .. Len(W) : V[j] = W[j]
      /\ \A j \in 1 .. Len(line) : V[Len(W) + j] = line[j]
      /\ \A j \in 1 .. Len(e) : V[Len(W) + Len(line) + j] = e[j]
  <2>1. AllJoined(W, line, e, V)
    BY DEF e
  <2> QED
    BY <2>1, ThreeJoined
<1>4. /\ Len(more) = N + 1 /\ more[N + 1] = line /\ \A i \in 1 .. N : more[i] = sent[i]
  BY <1>1
<1>5. end \in Nat /\ Len(V) = end /\ pos[N] <= end
  BY <1>1, <1>2, <1>3
<1>6. /\ new \in [0 .. N + 1 -> Nat] /\ new[N + 1] = end
      /\ \A i \in 0 .. N : new[i] = pos[i]
  <2> HIDE DEF end
  <2>1. \A i \in 0 .. N + 1 : i = N + 1 \/ i \in 0 .. N
    BY <1>1
  <2> QED
    BY <1>1, <1>5, <2>1
<1> HIDE DEF more, new
<1>7. ASSUME NEW i \in 1 .. N
      PROVE  /\ new[i] = new[i - 1] + Len(more[i]) + Ending(nul)
             /\ \A j \in 1 .. Len(more[i]) : V[new[i - 1] + j] = more[i][j]
             /\ V[new[i - 1] + Len(more[i]) + 1] = "NL"
             /\ nul => V[new[i]] = "NUL"
  <2>1. i \in 0 .. N /\ i - 1 \in 0 .. N /\ N \in 0 .. N /\ i <= N
    BY <1>1
  <2>2. new[i] = pos[i] /\ new[i - 1] = pos[i - 1] /\ more[i] = sent[i]
    BY <1>4, <1>6, <2>1
  <2>3. /\ pos[i] = pos[i - 1] + Len(sent[i]) + Ending(nul)
        /\ \A j \in 1 .. Len(sent[i]) : W[pos[i - 1] + j] = sent[i][j]
        /\ W[pos[i - 1] + Len(sent[i]) + 1] = "NL"
        /\ nul => W[pos[i]] = "NUL"
        /\ pos[i] <= pos[N]
    BY <2>1 DEF Encoded
  <2>4. Len(sent[i]) \in Nat
    BY SentLetters
  <2>5. pos[i] \in Nat /\ pos[i - 1] \in Nat /\ Ending(nul) \in {1, 2}
    BY <1>1, <2>1 DEF Ending
  <2>6. \A a, b, l, x \in Nat : x \in {1, 2} /\ b = a + l + x /\ b <= Len(W) =>
           /\ \A j \in 1 .. l : a + j \in 1 .. Len(W)
           /\ a + l + 1 \in 1 .. Len(W) /\ b \in 1 .. Len(W)
    BY <1>1
  <2>7. /\ \A j \in 1 .. Len(sent[i]) : pos[i - 1] + j \in 1 .. Len(W)
        /\ pos[i - 1] + Len(sent[i]) + 1 \in 1 .. Len(W) /\ pos[i] \in 1 .. Len(W)
    <3>1. pos[i] <= Len(W) /\ Ending(nul) \in Nat
      BY <1>1, <2>3, <2>5
    <3>2. pos[i] = pos[i - 1] + Len(sent[i]) + Ending(nul)
      BY <2>3
    <3> QED
      BY <2>4, <2>5, <2>6, <3>1, <3>2
  <2>8. \A j \in 1 .. Len(W) : V[j] = W[j]
    BY <1>3
  <2>9. \A j \in 1 .. Len(sent[i]) : V[pos[i - 1] + j] = sent[i][j]
    BY <2>3, <2>7, <2>8
  <2>10. V[pos[i - 1] + Len(sent[i]) + 1] = "NL" /\ (nul => V[pos[i]] = "NUL")
    BY <2>3, <2>7, <2>8
  <2> QED
    BY <2>2, <2>3, <2>9, <2>10
<1>8. /\ new[N + 1] = new[(N + 1) - 1] + Len(more[N + 1]) + Ending(nul)
      /\ \A j \in 1 .. Len(more[N + 1]) : V[new[(N + 1) - 1] + j] = more[N + 1][j]
      /\ V[new[(N + 1) - 1] + Len(more[N + 1]) + 1] = "NL"
      /\ nul => V[new[N + 1]] = "NUL"
  <2>1. (N + 1) - 1 = N /\ N \in 0 .. N
    BY <1>1
  <2>2. new[(N + 1) - 1] = pos[N] /\ Len(W) = pos[N] /\ more[N + 1] = line
    BY <1>1, <1>4, <1>6, <2>1
  <2>3. new[N + 1] = new[(N + 1) - 1] + Len(more[N + 1]) + Ending(nul)
    BY <1>6, <2>2
  <2>4. \A j \in 1 .. Len(more[N + 1]) : V[new[(N + 1) - 1] + j] = more[N + 1][j]
    BY <1>3, <2>2
  <2>5. V[new[(N + 1) - 1] + Len(more[N + 1]) + 1] = "NL"
    BY <1>2, <1>3, <2>2
  <2>6. nul => V[new[N + 1]] = "NUL"
    <3>1. nul => end = Len(W) + Len(line) + 2
      BY <1>1 DEF Ending
    <3>2. nul => V[Len(W) + Len(line) + 2] = "NUL"
      BY <1>2, <1>3
    <3> HIDE DEF end
    <3> QED
      BY <1>6, <3>1, <3>2
  <2> QED
    BY <2>3, <2>4, <2>5, <2>6
<1>9. \A i \in 1 .. Len(more) :
         /\ new[i] = new[i - 1] + Len(more[i]) + Ending(nul)
         /\ \A j \in 1 .. Len(more[i]) : V[new[i - 1] + j] = more[i][j]
         /\ V[new[i - 1] + Len(more[i]) + 1] = "NL"
         /\ nul => V[new[i]] = "NUL"
  <2> TAKE i \in 1 .. Len(more)
  <2>1. i = N + 1 \/ i \in 1 .. N
    BY <1>1, <1>4
  <2> QED
    BY <1>7, <1>8, <2>1
<1>10. ASSUME NEW i \in 0 .. N + 1, NEW j \in 0 .. N + 1, i <= j
       PROVE  new[i] <= new[j]
  <2>1. CASE j = N + 1 /\ i = N + 1
    BY <1>5, <1>6, <2>1
  <2>2. CASE j = N + 1 /\ i # N + 1
    <3>1. i \in 0 .. N /\ N \in 0 .. N /\ i <= N
      BY <1>1, <2>2
    <3>2. pos[i] <= pos[N]
      BY <3>1 DEF Encoded
    <3>3. new[i] = pos[i] /\ pos[i] \in Nat
      BY <1>1, <1>6, <3>1
    <3> QED
      BY <1>1, <1>5, <1>6, <2>2, <3>2, <3>3
  <2>3. CASE j # N + 1
    <3>1. i \in 0 .. N /\ j \in 0 .. N
      BY <1>1, <1>10, <2>3
    <3> QED
      BY <1>6, <1>10, <3>1 DEF Encoded
  <2> QED
    BY <2>1, <2>2, <2>3
<1>11. Encoded(V, new, more, nul)
  <2>1. new[0] = 0 /\ Len(V) = new[Len(more)] /\ new \in [0 .. Len(more) -> Nat]
    BY <1>1, <1>4, <1>5, <1>6
  <2>2. \A i, j \in 0 .. Len(more) : i <= j => new[i] <= new[j]
    BY <1>4, <1>10
  <2> QED
    BY <1>3, <1>9, <2>1, <2>2 DEF Encoded
<1> QED
  BY <1>6, <1>11 DEF more
\* What has been worked on is not touched by a line behind it.
LEMMA StillAt ==
    ASSUME NEW sent \in Seq(ClientLines), NEW line \in ClientLines, NEW nul,
           NEW pos, NEW new, \A i \in 0 .. Len(sent) : new[i] = pos[i],
           NEW p, NEW parsed \in Seq(Seq(Letters)), NEW text \in Seq(Letters),
           At(pos, sent, nul, p, parsed, text)
    PROVE  At(new, Append(sent, line), nul, p, parsed, text)
<1> DEFINE k == Len(parsed)
           more == Append(sent, line)
<1>1. /\ k \in Nat /\ Len(sent) \in Nat /\ Len(text) \in Nat /\ k <= Len(sent)
      /\ \A i \in 1 .. k : parsed[i] = sent[i]
  BY DEF At
<1>2. /\ Len(more) = Len(sent) + 1 /\ more[Len(sent) + 1] = line
      /\ \A i \in 1 .. Len(sent) : more[i] = sent[i]
  OBVIOUS
<1>3. new[k] = pos[k]
  BY <1>1
<1>4. \A i \in 1 .. k : parsed[i] = more[i]
  BY <1>1, <1>2
<1> HIDE DEF more
<1>5. CASE nul /\ k > 0 /\ text = <<>> /\ p = pos[k] - 1
  <2>1. p = new[k] - 1 /\ k <= Len(more)
    BY <1>1, <1>2, <1>3, <1>5
  <2>2. At(new, more, nul, p, parsed, text)
    BY <1>4, <1>5, <2>1 DEF At
  <2> QED
    BY <2>2 DEF more
<1>6. CASE /\ p = pos[k] + Len(text)
           /\ text # <<>> => k < Len(sent)
           /\ k < Len(sent) =>
               /\ Len(text) <= Len(sent[k + 1])
               /\ \A j \in 1 .. Len(text) : text[j] = sent[k + 1][j]
  <2>1. p = new[k] + Len(text) /\ k < Len(more)
    BY <1>1, <1>2, <1>3, <1>6
  <2>2. CASE k < Len(sent)
    <3>1. k + 1 \in 1 .. Len(sent)
      BY <1>1, <2>2
    <3>2. more[k + 1] = sent[k + 1]
      BY <1>2, <3>1
    <3>3. At(new, more, nul, p, parsed, text)
      BY <1>1, <1>2, <1>4, <1>6, <2>1, <2>2, <3>2 DEF At
    <3> QED
      BY <3>3 DEF more
  <2>3. CASE k = Len(sent)
    <3>1. text = <<>> /\ Len(<<>>) = 0
      BY <1>6, <2>3
    <3>2. more[k + 1] = line
      BY <1>2, <2>3
    <3>3. Len(line) \in Nat
      BY ClientAssumption
    <3>4. Len(text) <= Len(more[k + 1]) /\ \A j \in 1 .. Len(text) : FALSE
      BY <3>1, <3>2, <3>3
    <3>5. At(new, more, nul, p, parsed, text)
      BY <1>1, <1>2, <1>4, <2>1, <3>4 DEF At
    <3> QED
      BY <3>5 DEF more
  <2> QED
    BY <1>1, <2>2, <2>3
<1> QED
  BY <1>5, <1>6 DEF At

\* A connection on which a line has been sent is still in its stream.
LEMMA SentInStream ==
    ASSUME NEW r \in Connection, NEW nul \in BOOLEAN, NEW W, NEW pos, NEW p \in Nat,
           InStream(r, nul, W, pos, p), NEW line \in ClientLines, NEW q,
           AllJoined(r.net, line, EndBytes(nul), q.net), q.sent = Append(r.sent, line),
           q.parsed = r.parsed, q.line = r.line
    PROVE  \E V, new : InStream(q, nul, V, new, p)
<1> DEFINE e == EndBytes(nul)
<1>1. /\ r.sent \in Seq(ClientLines) /\ r.parsed \in Seq(Seq(Letters))
      /\ r.line \in Seq(Letters) /\ r.net \in Seq(Bytes) /\ Len(r.net) \in Nat
  BY DEF Connection
<1>2. /\ Encoded(W, pos, r.sent, nul) /\ p <= Len(W) /\ Len(r.net) = Len(W) - p
      /\ \A j \in 1 .. Len(r.net) : r.net[j] = W[p + j]
      /\ At(pos, r.sent, nul, p, r.parsed, r.line)
  BY DEF InStream
<1>3. /\ q.net \in Seq(Bytes) /\ Len(q.net) = Len(r.net) + Len(line) + Len(e)
      /\ \A j \in 1 .. Len(r.net) : q.net[j] = r.net[j]
      /\ \A j \in 1 .. Len(line) : q.net[Len(r.net) + j] = line[j]
      /\ \A j \in 1 .. Len(e) : q.net[Len(r.net) + Len(line) + j] = e[j]
  <2>1. PICK x, y : x = r.net /\ y = q.net
    OBVIOUS
  <2>2. AllJoined(x, line, e, y)
    BY <2>1
  <2> HIDE DEF e
  <2>3. /\ y \in Seq(Bytes) /\ Len(y) = Len(x) + Len(line) + Len(e)
        /\ \A j \in 1 .. Len(x) : y[j] = x[j]
        /\ \A j \in 1 .. Len(line) : y[Len(x) + j] = line[j]
        /\ \A j \in 1 .. Len(e) : y[Len(x) + Len(line) + j] = e[j]
    BY <2>2, ThreeJoined
  <2> QED
    BY <2>1, <2>3
<1>4. W \in Seq(Bytes) /\ Len(W) \in Nat /\ line \in Seq(Bytes) /\ e \in Seq(Bytes)
  <2>1. W \in Seq(Bytes)
    BY <1>2 DEF Encoded
  <2>2. line \in Seq(Bytes) /\ e \in Seq(Bytes)
    BY DEF AllJoined
  <2> QED
    BY <2>1, <2>2
<1> HIDE DEF e
<1>5. PICK V : AllJoined(W, line, e, V)
  BY <1>4 DEF AllJoined
<1>6. /\ V \in Seq(Bytes) /\ Len(V) = Len(W) + Len(line) + Len(e)
      /\ \A j \in 1 .. Len(W) : V[j] = W[j]
      /\ \A j \in 1 .. Len(line) : V[Len(W) + j] = line[j]
      /\ \A j \in 1 .. Len(e) : V[Len(W) + Len(line) + j] = e[j]
  BY <1>5, ThreeJoined
<1>7. PICK new : /\ Encoded(V, new, Append(r.sent, line), nul)
                 /\ \A i \in 0 .. Len(r.sent) : new[i] = pos[i]
  BY <1>1, <1>2, <1>5, SentEncoded DEF e
<1>8. At(new, q.sent, nul, p, q.parsed, q.line)
  BY <1>1, <1>2, <1>7, StillAt
<1>9. Len(line) \in Nat /\ Len(e) \in Nat
  BY <1>4
<1>10. p <= Len(V) /\ Len(q.net) = Len(V) - p
  BY <1>1, <1>2, <1>3, <1>4, <1>6, <1>9
<1>11. ASSUME NEW j \in 1 .. Len(q.net)
       PROVE  q.net[j] = V[p + j]
  <2>1. PICK a \in Nat, b \in Nat, d \in Nat, w \in Nat :
           a = Len(r.net) /\ b = Len(line) /\ d = Len(e) /\ w = Len(W)
    BY <1>1, <1>4, <1>9
  <2>2. w = p + a /\ j \in 1 .. a + b + d
    <3>1. a = w - p /\ Len(q.net) = a + b + d
      BY <1>2, <1>3, <2>1
    <3>2. \A x, y, z \in Nat : x = y - z => y = z + x
      OBVIOUS
    <3> QED
      BY <3>1, <3>2
  <2>3. CASE j <= a
    <3>1. j \in 1 .. a /\ p + j \in 1 .. w
      BY <2>2, <2>3
    <3> QED
      BY <1>2, <1>3, <1>6, <2>1, <3>1
  <2>4. CASE j > a /\ j <= a + b
    <3>1. PICK i \in 1 .. b : j = a + i
      <4>1. j - a \in 1 .. b /\ j = a + (j - a)
        BY <2>2, <2>4
      <4> QED
        BY <4>1
    <3>2. p + j = w + i
      BY <2>2, <3>1
    <3> QED
      BY <1>3, <1>6, <2>1, <3>1, <3>2
  <2>5. CASE j > a + b
    <3>1. PICK i \in 1 .. d : j = a + b + i
      <4>1. j - (a + b) \in 1 .. d /\ j = a + b + (j - (a + b))
        BY <2>2, <2>5
      <4> QED
        BY <4>1
    <3>2. p + j = w + b + i
      BY <2>2, <3>1
    <3> QED
      BY <1>3, <1>6, <2>1, <3>1, <3>2
  <2> QED
    BY <2>2, <2>3, <2>4, <2>5
<1>12. InStream(q, nul, V, new, p)
  BY <1>7, <1>8, <1>10, <1>11 DEF InStream
<1> QED
  BY <1>12
-----------------------------------------------------------------------------
(***************************************************************************)
(* The steps.                                                              *)
(***************************************************************************)

\* The inductive invariant.
ClientInv == Kept(Current) /\ AllLinesKept(Current)

\* If all bytes have been read and none was lost, nothing is left in _line.
LEMMA Drained ==
    ASSUME NEW r \in Connection, NEW nul \in BOOLEAN, NEW W, NEW pos, NEW p \in Nat,
           InStream(r, nul, W, pos, p), r.net = <<>>
    PROVE  r.line = <<>>
<1> DEFINE k == Len(r.parsed)
           N == Len(r.sent)
<1> SUFFICES ASSUME r.line # <<>> PROVE FALSE
  OBVIOUS
<1>1. /\ r.sent \in Seq(ClientLines) /\ r.parsed \in Seq(Seq(Letters))
      /\ r.line \in Seq(Letters)
  BY DEF Connection
<1>2. /\ Encoded(W, pos, r.sent, nul) /\ Len(r.net) = Len(W) - p
      /\ At(pos, r.sent, nul, p, r.parsed, r.line)
  BY DEF InStream
<1>3. p = pos[k] + Len(r.line) /\ k < N /\ Len(r.line) <= Len(r.sent[k + 1])
  BY <1>2 DEF At
<1>4. k \in Nat /\ N \in Nat /\ Len(r.line) \in Nat
  BY <1>1
<1>5. k + 1 \in 1 .. N /\ k \in 0 .. N /\ k + 1 \in 0 .. N /\ N \in 0 .. N /\ (k + 1) - 1 = k
  BY <1>3, <1>4
<1>6. /\ pos[k + 1] = pos[k] + Len(r.sent[k + 1]) + Ending(nul)
      /\ pos[k + 1] <= pos[N] /\ Len(W) = pos[N]
      /\ pos[k] \in Nat /\ pos[k + 1] \in Nat /\ pos[N] \in Nat
  <2>1. pos[k + 1] = pos[(k + 1) - 1] + Len(r.sent[k + 1]) + Ending(nul)
    BY <1>2, <1>5 DEF Encoded
  <2>2. Len(W) = pos[N] /\ pos[k] \in Nat /\ pos[k + 1] \in Nat /\ pos[N] \in Nat
    BY <1>2, <1>5 DEF Encoded
  <2>3. \A i, j \in 0 .. N : i <= j => pos[i] <= pos[j]
    BY <1>2 DEF Encoded
  <2>4. k + 1 <= N
    BY <1>3, <1>4
  <2>5. pos[k + 1] <= pos[N]
    BY <1>5, <2>3, <2>4
  <2> QED
    BY <1>5, <2>1, <2>2, <2>5
<1>7. Len(r.sent[k + 1]) \in Nat
  BY <1>1, <1>5, SentLetters
<1>8. Ending(nul) \in {1, 2}
  BY DEF Ending
<1>9. Len(W) = p
  <2>1. Len(r.net) = 0
    OBVIOUS
  <2>2. \A x \in Nat : 0 = x - p => x = p
    OBVIOUS
  <2> QED
    BY <1>2, <1>6, <2>1, <2>2
<1>10. \A a, b, x, y, z, l \in Nat :
          z \in {1, 2} /\ b = a + y + z /\ b <= x /\ x = a + l /\ l <= y => FALSE
  OBVIOUS
<1>11. Ending(nul) \in Nat
  BY <1>8
<1>12. pos[k + 1] <= p /\ p = pos[k] + Len(r.line)
  BY <1>3, <1>6, <1>9
<1> QED
  BY <1>3, <1>4, <1>6, <1>7, <1>8, <1>10, <1>11, <1>12

\* A machine that the program becomes is its current state.
LEMMA BecomeIs ==
    ASSUME NEW m \in Machine, Become(m)
    PROVE  Current' = m
<1>1. m = [conn |-> m.conn, has_master |-> m.has_master, accepting |-> m.accepting,
           arena |-> m.arena, log |-> m.log, tournaments |-> m.tournaments,
           failed |-> m.failed]
  BY DEF Machine
<1> QED
  BY <1>1 DEF Become, Current

\* The invariant holds of the machine that the program becomes.
LEMMA BecomeKeeps ==
    ASSUME NEW m, Kept(m), AllLinesKept(m), Become(m)
    PROVE  ClientInv'
<1>1. Current' = m
  BY BecomeIs DEF Kept
<1> QED
  BY <1>1 DEF ClientInv

\* What the current state has of the variables.
LEMMA CurrentIs ==
    /\ Current.conn = conn /\ Current.has_master = has_master
    /\ Current.accepting = accepting /\ Current.arena = arena /\ Current.log = log
    /\ Current.tournaments = tournaments /\ Current.failed = failed
BY DEF Current

\* A read.
LEMMA ClientLoopStep ==
    ASSUME ClientInv, NEW c \in Connections, ClientLoop(c)
    PROVE  ClientInv'
<1>1. PICK n \in 1 .. Len(conn[c].net) : Become(Loop(c, n))
  BY DEF ClientLoop
<1>2. PICK m : m = Current
  OBVIOUS
<1>3. m \in Machine /\ Kept(m) /\ AllLinesKept(m) /\ m.conn = conn
  BY <1>2, CurrentIs DEF ClientInv, Kept
<1>4. PICK o : o = LoopEnd(Through(Taken(m, c, n), c, SubSeq(m.conn[c].net, 1, n)), c, n)
  OBVIOUS
<1>5. Loop(c, n) = o
  BY <1>2, <1>3, <1>4 DEF Loop, LoopEnd, Taken, Lost
<1>6. m.conn[c].stage = "open" /\ n \in 1 .. Len(m.conn[c].net)
  BY <1>1, <1>3 DEF ClientLoop
<1>7. Kept(o) /\ AllLinesKept(o)
  BY <1>3, <1>4, <1>6, LoopKeeps
<1>8. Become(o)
  BY <1>1, <1>5
<1> QED
  BY <1>7, <1>8, BecomeKeeps

\* The end of a connection.
LEMMA ClientEndsStep ==
    ASSUME ClientInv, NEW c \in Connections, ClientEnds(c)
    PROVE  ClientInv'
<1>1. PICK m : m = Current
  OBVIOUS
<1>2. /\ m \in Machine /\ Kept(m) /\ AllLinesKept(m) /\ m.conn = conn
  BY <1>1, CurrentIs DEF ClientInv, Kept
<1>3. PICK n : n = IF m.conn[c].line = <<>> THEN m ELSE ParseLine(m, c)
  OBVIOUS
<1>4. PICK o : o = Close(n, c)
  OBVIOUS
<1>5. /\ m.conn[c].stage = "open" /\ m.conn[c].net = <<>>
      /\ Become(o)
  BY <1>1, <1>2, <1>3, <1>4 DEF ClientEnds
<1>6. Kept(n) /\ Handled(m, n, c)
  <2>1. CASE m.conn[c].line = <<>>
    BY <1>2, <1>3, <1>5, <2>1 DEF Handled, SameConnection
  <2>2. CASE m.conn[c].line # <<>>
    BY <1>2, <1>3, <1>5, <2>2, ParseLineIs
  <2> QED
    BY <2>1, <2>2
<1>7. n \in Machine
  BY <1>6 DEF Kept
<1>8. /\ But(n, o, c) /\ o.has_master = n.has_master
      /\ o.conn[c].master = n.conn[c].master
      /\ o.conn[c].parsed = n.conn[c].parsed /\ o.conn[c].stage = "closed"
      /\ o.conn[c].sent = n.conn[c].sent /\ o.conn[c].lost = n.conn[c].lost
  BY <1>4, <1>7, CloseIs
<1>9. Kept(o)
  BY <1>6, <1>8, ButKept
<1>10. o.conn[c].sent = m.conn[c].sent /\ o.conn[c].lost = m.conn[c].lost
  BY <1>6, <1>8 DEF Handled
<1>11. ASSUME ~ m.conn[c].lost
       PROVE  FirstLines(o.conn[c].parsed, o.conn[c].sent)
  <2> DEFINE r == m.conn[c]
             nul == c \in SendsNul
  <2>1. LinesKept(r, nul)
    BY <1>2 DEF AllLinesKept
  <2>2. r \in Connection /\ nul \in BOOLEAN /\ r.stage # "closed" /\ r.net = <<>> /\ ~ r.lost
    BY <1>2, <1>5, <1>11, ConnectionOf
  <2> HIDE DEF r, nul
  <2>3. PICK W, pos : \E p \in Nat : InStream(r, nul, W, pos, p)
    BY <2>1, <2>2 DEF LinesKept
  <2>4. r.line = <<>>
    BY <2>2, <2>3, Drained
  <2>5. o.conn[c].parsed = r.parsed
    BY <1>3, <1>8, <2>4 DEF r
  <2>6. FirstLines(r.parsed, r.sent)
    BY <2>1, <2>2 DEF LinesKept
  <2> QED
    BY <1>10, <2>5, <2>6 DEF r
<1>12. LinesKept(o.conn[c], c \in SendsNul)
  BY <1>8, <1>10, <1>11 DEF LinesKept
<1>13. \A d \in Connections : d # c => SameConnection(o.conn[d], m.conn[d])
  BY <1>6, <1>8 DEF But, Handled
<1>14. AllLinesKept(o)
  BY <1>2, <1>12, <1>13, OthersLinesKept
<1> QED
  BY <1>5, <1>9, <1>14, BecomeKeeps
\* The connections may change as long as their lines do not and nobody comes in
\* during a tournament.
LEMMA ConnectionsStep ==
    ASSUME ClientInv, NEW new \in [Connections -> Connection], conn' = new,
           UNCHANGED <<has_master, accepting, arena, log, tournaments, failed>>,
           \A c \in Connections :
             /\ new[c].master = conn[c].master
             /\ new[c].begun = conn[c].begun
             /\ new[c].stage = "open" => conn[c].stage = "open" \/ accepting
             /\ LinesKept(new[c], c \in SendsNul)
    PROVE  ClientInv'
<1>1. PICK m : m = Current
  OBVIOUS
<1>2. /\ m \in Machine /\ Kept(m) /\ m.conn = conn /\ m.has_master = has_master
      /\ m.accepting = accepting /\ m.arena = arena /\ m.log = log
      /\ m.tournaments = tournaments /\ m.failed = failed
  BY <1>1, CurrentIs DEF ClientInv, Kept
<1>3. PICK n : n = [m EXCEPT !.conn = new]
  OBVIOUS
<1>4. /\ n \in Machine
  BY <1>2, <1>3, MachineTyped
<1>5. /\ n.conn = new /\ n.has_master = m.has_master /\ n.accepting = m.accepting
      /\ n.arena = m.arena /\ n.log = m.log
      /\ n.tournaments = m.tournaments /\ n.failed = m.failed
  BY <1>2, <1>3 DEF Machine
<1>6. Become(n)
  BY <1>2, <1>5 DEF Become
<1>7. \A c \in Connections : n.conn[c].master = m.conn[c].master
  BY <1>2, <1>5
<1>8. MasterKept(n)
  BY <1>2, <1>5, <1>7, SameMaster DEF Kept
<1>9. LogKept(n)
  BY <1>2, <1>5 DEF Kept, LogKept
<1>10. AllLinesKept(n)
  BY <1>5 DEF AllLinesKept
<1> QED
  BY <1>4, <1>6, <1>8, <1>9, <1>10, BecomeKeeps DEF Kept

\* What the invariant says of the variables.
LEMMA ConnType ==
    ASSUME ClientInv
    PROVE  /\ conn \in [Connections -> Connection]
           /\ \A c \in Connections : LinesKept(conn[c], c \in SendsNul)
BY CurrentIs DEF ClientInv, Kept, Machine, AllLinesKept

\* A stage or a hangup does not touch the lines.
LEMMA StageLines ==
    ASSUME NEW r \in Connection, NEW nul, LinesKept(r, nul), r.stage # "closed",
           NEW q, q.net = r.net, q.line = r.line, q.sent = r.sent, q.parsed = r.parsed,
           q.lost = r.lost
    PROVE  LinesKept(q, nul)
BY DEF LinesKept, InStream

\* One connection changes.
LEMMA OneConnectionStep ==
    ASSUME ClientInv, NEW c \in Connections, NEW q \in Connection,
           conn' = [conn EXCEPT ![c] = q],
           UNCHANGED <<has_master, accepting, arena, log, tournaments, failed>>,
           q.master = conn[c].master, q.begun = conn[c].begun,
           q.stage = "open" => conn[c].stage = "open", LinesKept(q, c \in SendsNul)
    PROVE  ClientInv'
<1>1. PICK new : new = [conn EXCEPT ![c] = q]
  OBVIOUS
<1>2. conn \in [Connections -> Connection]
  BY ConnType
<1>3. new \in [Connections -> Connection] /\ conn' = new
  BY <1>1, <1>2
<1>4. ASSUME NEW d \in Connections
      PROVE  /\ new[d].master = conn[d].master
             /\ new[d].begun = conn[d].begun
             /\ new[d].stage = "open" => conn[d].stage = "open" \/ accepting
             /\ LinesKept(new[d], d \in SendsNul)
  <2>1. CASE d = c
    <3>1. new[d] = q
      BY <1>1, <1>2, <2>1
    <3> QED
      BY <2>1, <3>1
  <2>2. CASE d # c
    <3>1. new[d] = conn[d]
      BY <1>1, <1>2, <2>2
    <3> QED
      BY <3>1, ConnType
  <2> QED
    BY <2>1, <2>2
<1> QED
  BY <1>3, <1>4, ConnectionsStep

\* A connection is made.
LEMMA ConnectStep ==
    ASSUME ClientInv, NEW c \in Connections, Connect(c)
    PROVE  ClientInv'
<1>1. PICK r, q : r = conn[c] /\ q = [r EXCEPT !.stage = "queued"]
  OBVIOUS
<1>2. r \in Connection /\ LinesKept(r, c \in SendsNul)
  BY <1>1, ConnType
<1>3. q \in Connection
  BY <1>1, <1>2 DEF Connection, Stages
<1>4. /\ q.net = r.net /\ q.line = r.line /\ q.sent = r.sent /\ q.parsed = r.parsed
      /\ q.lost = r.lost /\ q.master = r.master /\ q.begun = r.begun /\ q.stage = "queued"
  BY <1>1, <1>2 DEF Connection
<1>5. /\ conn' = [conn EXCEPT ![c] = q] /\ r.stage # "closed"
      /\ UNCHANGED <<has_master, accepting, arena, log, tournaments, failed>>
  BY <1>1 DEF Connect
<1>6. LinesKept(q, c \in SendsNul)
  BY <1>2, <1>4, <1>5, StageLines
<1> QED
  BY <1>1, <1>3, <1>4, <1>5, <1>6, OneConnectionStep

\* A client hangs up.
LEMMA HangupStep ==
    ASSUME ClientInv, NEW c \in Connections, Hangup(c)
    PROVE  ClientInv'
<1>1. PICK r, q : r = conn[c] /\ q = [r EXCEPT !.ended = TRUE]
  OBVIOUS
<1>2. r \in Connection /\ LinesKept(r, c \in SendsNul)
  BY <1>1, ConnType
<1>3. q \in Connection
  BY <1>1, <1>2 DEF Connection, Stages
<1>4. /\ q.net = r.net /\ q.line = r.line /\ q.sent = r.sent /\ q.parsed = r.parsed
      /\ q.lost = r.lost /\ q.master = r.master /\ q.begun = r.begun /\ q.stage = r.stage
  BY <1>1, <1>2 DEF Connection
<1>5. /\ conn' = [conn EXCEPT ![c] = q] /\ r.stage # "closed"
      /\ UNCHANGED <<has_master, accepting, arena, log, tournaments, failed>>
  BY <1>1 DEF Hangup
<1>6. LinesKept(q, c \in SendsNul)
  BY <1>2, <1>4, <1>5, StageLines
<1> QED
  BY <1>1, <1>3, <1>4, <1>5, <1>6, OneConnectionStep

\* A line is sent.
LEMMA SendStep ==
    ASSUME ClientInv, NEW c \in Connections, Send(c)
    PROVE  ClientInv'
<1>1. PICK line \in ClientLines :
         conn' = [conn EXCEPT ![c].net = @ \o line \o EndBytes(c \in SendsNul),
                              ![c].sent = Append(@, line)]
  BY DEF Send, EndBytes
<1>2. PICK r, nul, e, net, sent :
         /\ r = conn[c] /\ nul = (c \in SendsNul) /\ e = EndBytes(nul)
         /\ net = r.net \o line \o e /\ sent = Append(r.sent, line)
  OBVIOUS
<1>3. PICK q : q = [r EXCEPT !.net = net, !.sent = sent]
  OBVIOUS
<1>4. /\ r \in Connection /\ LinesKept(r, nul) /\ nul \in BOOLEAN
      /\ conn \in [Connections -> Connection]
  BY <1>2, ConnType
<1>5. conn' = [conn EXCEPT ![c] = q]
  BY <1>1, <1>2, <1>3, <1>4 DEF Connection
<1>6. AllJoined(r.net, line, e, net)
  <2>1. r.net \in Seq(Bytes)
    BY <1>4 DEF Connection
  <2>2. line \in Seq(Letters) /\ Letters \subseteq Bytes
    BY ClientAssumption DEF Bytes
  <2>3. line \in Seq(Bytes)
    BY <2>2, SeqMonotonic
  <2>4. <<"NL", "NUL">> \in Seq(Bytes) /\ <<"NL">> \in Seq(Bytes)
    BY DEF Bytes
  <2>5. e \in Seq(Bytes)
    BY <1>2, <2>4 DEF EndBytes
  <2> QED
    BY <1>2, <2>1, <2>3, <2>5 DEF AllJoined
<1>7. net \in Seq(Bytes) /\ sent \in Seq(ClientLines)
  <2>1. net \in Seq(Bytes)
    BY <1>6, ThreeJoined
  <2>2. r.sent \in Seq(ClientLines)
    BY <1>4 DEF Connection
  <2> QED
    BY <1>2, <2>1, <2>2
<1>8. q \in Connection
  BY <1>3, <1>4, <1>7 DEF Connection
<1>9. /\ q.net = net /\ q.sent = sent /\ q.line = r.line /\ q.parsed = r.parsed
      /\ q.lost = r.lost /\ q.master = r.master /\ q.begun = r.begun /\ q.stage = r.stage
  BY <1>3, <1>4 DEF Connection
<1>10. /\ r.stage # "closed"
       /\ UNCHANGED <<has_master, accepting, arena, log, tournaments, failed>>
  BY <1>2 DEF Send
<1>11. LinesKept(q, nul)
  <2> SUFFICES ASSUME ~ q.lost
               PROVE  /\ FirstLines(q.parsed, q.sent)
                      /\ \E V, new : \E p \in Nat : InStream(q, nul, V, new, p)
    BY DEF LinesKept
  <2>1. PICK W, pos : \E p \in Nat : InStream(r, nul, W, pos, p)
    BY <1>4, <1>9, <1>10 DEF LinesKept
  <2>2. PICK p \in Nat : InStream(r, nul, W, pos, p)
    BY <2>1
  <2>3. AllJoined(r.net, line, EndBytes(nul), q.net) /\ q.sent = Append(r.sent, line)
    BY <1>2, <1>6, <1>9
  <2>4. \E V, new : InStream(q, nul, V, new, p)
    BY <1>4, <1>9, <2>2, <2>3, SentInStream
  <2>5. FirstLines(q.parsed, q.sent)
    BY <2>4 DEF InStream, At, FirstLines
  <2> QED
    BY <2>4, <2>5
<1> QED
  BY <1>2, <1>5, <1>8, <1>9, <1>10, <1>11, OneConnectionStep

\* Everybody who is queued is let in.
LEMMA AcceptStep ==
    ASSUME ClientInv, Accept
    PROVE  ClientInv'
<1>1. PICK new : new = [c \in Connections |->
                  [conn[c] EXCEPT !.stage = IF @ = "queued" THEN "open" ELSE @]]
  OBVIOUS
<1>2. conn' = new /\ accepting
  BY <1>1 DEF Accept
<1>3. ASSUME NEW c \in Connections
      PROVE  /\ new[c] \in Connection
             /\ new[c].master = conn[c].master
             /\ new[c].begun = conn[c].begun
             /\ new[c].stage = "open" => conn[c].stage = "open" \/ accepting
             /\ LinesKept(new[c], c \in SendsNul)
  <2> DEFINE r == conn[c]
             q == new[c]
  <2>1. r \in Connection /\ LinesKept(r, c \in SendsNul)
    BY ConnType
  <2>2. q = [r EXCEPT !.stage = IF r.stage = "queued" THEN "open" ELSE r.stage]
    BY <1>1
  <2>3. q \in Connection
    BY <2>1, <2>2 DEF Connection, Stages
  <2>4. /\ q.net = r.net /\ q.line = r.line /\ q.sent = r.sent /\ q.parsed = r.parsed
        /\ q.lost = r.lost /\ q.master = r.master /\ q.begun = r.begun
        /\ r.stage = "closed" => q.stage = "closed"
    BY <2>1, <2>2 DEF Connection
  <2> HIDE DEF q, r
  <2>5. CASE r.stage # "closed"
    BY <1>2, <2>1, <2>3, <2>4, <2>5, StageLines DEF q, r
  <2>6. CASE r.stage = "closed"
    <3>1. LinesKept(q, c \in SendsNul)
      BY <2>1, <2>4, <2>6 DEF LinesKept
    <3> QED
      BY <1>2, <2>3, <2>4, <3>1 DEF q, r
  <2> QED
    BY <2>5, <2>6
<1>4. new \in [Connections -> Connection]
  BY <1>1, <1>3
<1>5. UNCHANGED <<has_master, accepting, arena, log, tournaments, failed>>
  BY DEF Accept
<1> QED
  BY <1>2, <1>3, <1>4, <1>5, ConnectionsStep
\* What has to do with the log only does not touch lines and masters.
LEMMA LogStep ==
    ASSUME NEW m, Kept(m), AllLinesKept(m), NEW n \in Machine, SameConnections(m, n),
           n.has_master = m.has_master, LogKept(n), Become(n)
    PROVE  ClientInv'
<1>1. \A c \in Connections : n.conn[c].master = m.conn[c].master
  BY DEF SameConnections, SameConnection
<1>2. MasterKept(n)
  BY <1>1, SameMaster DEF Kept
<1>3. AllLinesKept(n)
  BY SameLinesKept DEF AllLinesKept, SameConnections
<1> QED
  BY <1>2, <1>3, BecomeKeeps DEF Kept

\* A tournament begins, its log goes on, and it ends.
LEMMA TournamentStep ==
    ASSUME ClientInv, StartTournament \/ PrintLog \/ EndTournament
    PROVE  ClientInv'
<1>1. PICK m : m = Current
  OBVIOUS
<1>2. /\ m \in Machine /\ Kept(m) /\ AllLinesKept(m) /\ m.arena = arena
  BY <1>1, CurrentIs DEF ClientInv, Kept
<1>3. CASE StartTournament
  <2>1. PICK n : n = Started(m)
    OBVIOUS
  <2>2. n \in Machine /\ SameConnections(m, n) /\ LogKept(n) /\ n.has_master = m.has_master
    BY <1>2, <2>1, StartedIs
  <2>3. Become(n)
    BY <1>1, <1>3, <2>1 DEF StartTournament
  <2> QED
    BY <1>2, <2>2, <2>3, LogStep
<1>4. CASE PrintLog
  <2>1. PICK n : n = Printed(m)
    OBVIOUS
  <2>2. /\ n \in Machine /\ SameConnections(m, n) /\ n.has_master = m.has_master
        /\ n.log = m.log + 1 /\ n.arena = m.arena /\ n.accepting = m.accepting
        /\ \A c \in Connections :
             n.conn[c].begun = IF m.conn[c].stage = "open" /\ m.conn[c].begun = 0
                               THEN m.log + 1 ELSE m.conn[c].begun
    BY <1>2, <2>1, PrintedIs
  <2>3. m.arena = "running" /\ Become(n)
    BY <1>1, <1>2, <1>4, <2>1 DEF PrintLog
  <2>4. LogKept(n)
    <3>1. /\ ~ m.accepting /\ m.log > 0 /\ m.log \in Nat
          /\ \A c \in Connections : m.conn[c].stage = "open" => m.conn[c].begun = 1
      BY <1>2, <2>3 DEF Kept, LogKept, Machine
    <3>2. ASSUME NEW c \in Connections, n.conn[c].stage = "open"
          PROVE  n.conn[c].begun = 1
      <4>1. m.conn[c].stage = "open"
        BY <2>2, <3>2 DEF SameConnections, SameConnection
      <4>2. m.conn[c].begun = 1
        BY <3>1, <4>1
      <4> QED
        BY <2>2, <4>2
    <3>3. n.log > 0 /\ ~ n.accepting
      BY <2>2, <3>1
    <3> QED
      BY <3>2, <3>3 DEF LogKept
  <2> QED
    BY <1>2, <2>2, <2>3, <2>4, LogStep
<1>5. CASE EndTournament
  <2>1. PICK e : e = NoLog(m)
    OBVIOUS
  <2>2. PICK n : n = [e EXCEPT !.arena = "finished", !.accepting = @ \/ Graphics]
    OBVIOUS
  <2>3. e \in Machine /\ SameConnections(m, e) /\ e.has_master = m.has_master
    BY <1>2, <2>1, NoLogIs
  <2>4. PICK a \in BOOLEAN : a = (e.accepting \/ Graphics)
    BY <2>3, ClientAssumption DEF Machine
  <2>5. n = [e EXCEPT !.arena = "finished", !.accepting = a]
    BY <2>2, <2>4
  <2>6. n \in Machine
    BY <2>3, <2>4, <2>5 DEF Machine
  <2>7. n.conn = e.conn /\ n.has_master = e.has_master /\ n.arena = "finished"
    BY <2>3, <2>5 DEF Machine
  <2>8. SameConnections(m, n) /\ LogKept(n)
    BY <2>3, <2>7 DEF SameConnections, LogKept
  <2>9. Become(n)
    BY <1>1, <1>5, <2>1, <2>2 DEF EndTournament
  <2> QED
    BY <1>2, <2>3, <2>6, <2>7, <2>8, <2>9, LogStep
<1> QED
  BY <1>3, <1>4, <1>5

\* Nothing has been sent yet: the stream is empty.
LEMMA ClientInvInit == Init => ClientInv
<1> SUFFICES ASSUME Init PROVE ClientInv
  OBVIOUS
<1>1. PICK m : m = Current
  OBVIOUS
<1>2. /\ m.conn = conn /\ m.has_master = has_master /\ m.accepting = accepting
      /\ m.arena = arena /\ m.log = log /\ m.tournaments = tournaments /\ m.failed = failed
  BY <1>1, CurrentIs
<1>3. NewConnection \in Connection
  BY DEF NewConnection, Connection, Stages
<1>4. \A c \in Connections : conn[c] = NewConnection
  BY DEF Init
<1>5. conn \in [Connections -> Connection]
  BY <1>3 DEF Init
<1>6. m \in Machine
  <2>1. m = [conn |-> conn, has_master |-> FALSE, accepting |-> TRUE, arena |-> "none",
             log |-> 0, tournaments |-> 0, failed |-> FALSE]
    BY <1>1 DEF Current, Init
  <2> QED
    BY <1>5, <2>1 DEF Machine
<1>7. LogKept(m) /\ MasterKept(m)
  <2>1. m.arena # "running"
    BY <1>2 DEF Init
  <2>2. \A c \in Connections : ~ m.conn[c].master
    BY <1>2, <1>4 DEF NewConnection
  <2> QED
    BY <2>1, <2>2 DEF LogKept, MasterKept
<1>8. ASSUME NEW nul PROVE LinesKept(NewConnection, nul)
  <2> DEFINE r == NewConnection
             pos == [i \in 0 .. 0 |-> 0]
  <2>1. r.sent = <<>> /\ r.parsed = <<>> /\ r.line = <<>> /\ r.net = <<>>
    BY DEF NewConnection
  <2>2. Len(<<>>) = 0 /\ <<>> \in Seq(Bytes) /\ \A j \in 1 .. 0 : FALSE
    OBVIOUS
  <2>3. /\ pos \in [0 .. 0 -> Nat] /\ pos[0] = 0
        /\ \A i, j \in 0 .. 0 : i <= j => pos[i] <= pos[j]
    <3>1. \A i \in 0 .. 0 : i = 0
      OBVIOUS
    <3> QED
      BY <3>1
  <2> HIDE DEF r, pos
  <2>4. Encoded(<<>>, pos, r.sent, nul)
    BY <2>1, <2>2, <2>3 DEF Encoded
  <2>5. At(pos, r.sent, nul, 0, r.parsed, r.line)
    BY <2>1, <2>2, <2>3 DEF At
  <2>6. InStream(r, nul, <<>>, pos, 0)
    BY <2>1, <2>2, <2>4, <2>5 DEF InStream
  <2>7. FirstLines(r.parsed, r.sent)
    BY <2>1, <2>2 DEF FirstLines
  <2>8. \E W, p : \E n \in Nat : InStream(r, nul, W, p, n)
    <3>1. 0 \in Nat
      OBVIOUS
    <3> QED
      BY <2>6, <3>1
  <2>9. LinesKept(r, nul)
    BY <2>7, <2>8 DEF LinesKept
  <2> QED
    BY <2>9 DEF r
<1>9. AllLinesKept(m)
  BY <1>2, <1>4, <1>8 DEF AllLinesKept
<1> QED
  BY <1>1, <1>6, <1>7, <1>9 DEF ClientInv, Kept

\* Every step keeps the invariant.
LEMMA ClientInvStep == ClientInv /\ [Next]_vars => ClientInv'
<1> SUFFICES ASSUME ClientInv, [Next]_vars PROVE ClientInv'
  OBVIOUS
<1>1. CASE Accept
  BY <1>1, AcceptStep
<1>2. CASE StartTournament \/ EndTournament \/ PrintLog
  BY <1>2, TournamentStep
<1>3. CASE \E c \in Connections : Connect(c) \/ Send(c) \/ Hangup(c)
  BY <1>3, ConnectStep, SendStep, HangupStep
<1>4. CASE \E c \in Connections : ClientLoop(c)
  BY <1>4, ClientLoopStep
<1>5. CASE \E c \in Connections : ClientEnds(c)
  BY <1>5, ClientEndsStep
<1>6. CASE UNCHANGED vars
  <2>1. Current' = Current
    BY <1>6 DEF vars, Current
  <2> QED
    BY <2>1 DEF ClientInv
<1> QED
  BY <1>1, <1>2, <1>3, <1>4, <1>5, <1>6 DEF Next

\* The invariant always holds.
LEMMA ClientInvAlways == Spec => []ClientInv
BY ClientInvInit, ClientInvStep, PTL DEF Spec

\* The lines given to parse_line are those that were sent, in their order, however
\* loop has got their bytes, unless a full read has lost a piece.
THEOREM LinesIntactAlways == Spec => []LinesIntact
<1>1. ClientInv => LinesIntact
  <2> SUFFICES ASSUME ClientInv, NEW c \in Connections, ~ conn[c].lost
               PROVE  IsPrefix(conn[c].parsed, conn[c].sent)
    BY DEF LinesIntact
  <2>1. PICK s, t : s = conn[c].parsed /\ t = conn[c].sent
    OBVIOUS
  <2>2. conn[c] \in Connection /\ FirstLines(s, t)
    BY <2>1, ConnType DEF LinesKept
  <2>3. s \in Seq(Seq(Letters)) /\ t \in Seq(ClientLines) /\ t \in Seq(Seq(Letters))
    <3>1. s \in Seq(Seq(Letters)) /\ t \in Seq(ClientLines)
      BY <2>1, <2>2 DEF Connection
    <3>2. ClientLines \subseteq Seq(Letters)
      BY ClientAssumption
    <3> QED
      BY <3>1, <3>2, SeqMonotonic
  <2>4. Len(s) \in Nat /\ Len(t) \in Nat /\ Len(s) <= Len(t)
    BY <2>2, <2>3 DEF FirstLines
  <2>5. \A i \in 1 .. Len(s) : s[i] = t[i] /\ s[i] \in Seq(Letters) /\ t[i] \in Seq(Letters)
    <3>1. \A i \in 1 .. Len(s) : s[i] = t[i]
      BY <2>2 DEF FirstLines
    <3>2. \A i \in 1 .. Len(s) : s[i] \in Seq(Letters)
      BY <2>3, ElementOfSeq
    <3> QED
      BY <3>1, <3>2
  <2> DEFINE u == SubSeq(s, 1, Len(s))
             v == SubSeq(t, 1, Len(s))
             l == IF 1 <= Len(s) THEN Len(s) - 1 + 1 ELSE 0
  <2>6. /\ u \in Seq(Seq(Letters)) /\ Len(u) = l
        /\ \A i \in 1 .. Len(s) - 1 + 1 : u[i] = s[1 + i - 1]
    BY <2>4, <2>5, SubSeqProperties
  <2>7. /\ v \in Seq(Seq(Letters)) /\ Len(v) = l
        /\ \A i \in 1 .. Len(s) - 1 + 1 : v[i] = t[1 + i - 1]
    BY <2>4, <2>5, SubSeqProperties
  <2> HIDE DEF u, v
  <2>8. Len(u) = Len(v) /\ Len(u) = Len(s)
    BY <2>4, <2>6, <2>7
  <2>9. ASSUME NEW i \in 1 .. Len(u) PROVE u[i] = v[i]
    <3>1. i \in 1 .. Len(s) - 1 + 1 /\ i \in 1 .. Len(s) /\ 1 + i - 1 = i
      BY <2>4, <2>8
    <3> QED
      BY <2>5, <2>6, <2>7, <3>1
  <2>10. u = v
    BY <2>6, <2>7, <2>8, <2>9, SeqEqual
  <2> QED
    BY <2>1, <2>4, <2>10 DEF IsPrefix, u, v
<1> QED
  BY <1>1, ClientInvAlways, PTL

\* During a tournament everybody who is connected has its log from the first line,
\* since start_tournament closes the door and only set_state opens it again.
THEOREM WholeLogAlways == Spec => []WholeLog
<1>1. ClientInv => WholeLog
  BY CurrentIs DEF ClientInv, Kept, LogKept, WholeLog
<1> QED
  BY <1>1, ClientInvAlways, PTL

\* Only one connection is ever registered as the master.
OneMaster ==
    \A c, d \in Connections : conn[c].master /\ conn[d].master => c = d

\* parse_line makes one client the master at most, and a tournament can be started
\* from the network by nobody else.
THEOREM OneMasterAlways == Spec => []OneMaster
<1>1. ClientInv => OneMaster
  BY CurrentIs DEF ClientInv, Kept, MasterKept, OneMaster
<1> QED
  BY <1>1, ClientInvAlways, PTL
=============================================================================
