--------------------------- MODULE RobotMessages ---------------------------
(***************************************************************************)
(* What robots write to their standard output and what the server makes    *)
(* of it: Robot::get_messages with the state checks, the names and colours *)
(* of the robots, and the restart of a robot from inside its own message.  *)
(*                                                                         *)
(* A robot writes whole lines of words; a pipe holds words and "NL" for    *)
(* the ends of lines, with one space between the words of a line.  Lines   *)
(* are shorter than the buffers of get_messages.  The server reads at most *)
(* ReadLimit words and line ends at a time and then takes message names,   *)
(* numbers and rests of lines out of what it has read.                     *)
(***************************************************************************)
EXTENDS Naturals, Sequences, FiniteSets, SequencesExt

CONSTANTS
    NumberOfRobots,     \* all_robots_in_tournament, in this order
    Lineups,            \* the sets of robots that may play a sequence
    Lines,              \* the lines that robots write, sequences of words
    ValueOf,            \* ValueOf[w]: the number that the word w stands for
    Colours,            \* all colours, words too; those that differ are far enough apart
    Background,         \* OPTION_BACKGROUND_COLOUR
    Foreground,         \* OPTION_FOREGROUND_COLOUR, the colour of a new robot
    TeamOf(_),          \* the team that a name is followed by, "" if none
    NSIG,               \* the number of signals
    SIGUSR1,
    MaxDebugLevel,      \* is_max_debug_level, and the graphics are on
    ReadLimit,          \* 4096 bytes, in words and line ends
    SequencesInTournament,
    GamesPerSequence,
    MaxLines            \* bound: lines that the robots write altogether

Robots == 1 .. NumberOfRobots

\* What lines are made of.
Words == STRING \ {"NL"}

ASSUME MessagesAssumption ==
    /\ {NumberOfRobots, ReadLimit, SequencesInTournament, GamesPerSequence} \subseteq Nat \ {0}
    /\ Lineups \subseteq SUBSET Robots
    /\ Lines \subseteq Seq(Words)
    /\ {Background, Foreground} \subseteq Colours /\ IsFiniteSet(Colours)
    /\ MaxDebugLevel \in BOOLEAN
    /\ \A s \in Lineups : Cardinality(s) < Cardinality(Colours)

VARIABLES
    state,          \* of the arena
    sequence_nr,
    game_nr,
    members,        \* all_robots_in_sequence
    alive,          \* robots that are alive
    robot,          \* robot[r]: what the server knows of r, a record
    pipe,           \* pipe[r]: written by r and not yet read
    cut,            \* history: the robots whose pipe begins inside a line
    lastRead,       \* history: what the last step read and made of it
    written         \* history: the number of lines written

vars == <<state, sequence_nr, game_nr, members, alive, robot, pipe, cut, lastRead, written>>

-----------------------------------------------------------------------------
(***************************************************************************)
(* Messagetypes.h                                                          *)
(***************************************************************************)
\* The messages of a game and their numbers of arguments.
Commands ==
    [Rotate |-> 2, RotateTo |-> 3, RotateAmount |-> 3, Sweep |-> 4,
     Accelerate |-> 1, Brake |-> 1, Break |-> 1, Shoot |-> 1]

Drawings == [DebugLine |-> 4, DebugCircle |-> 3]

StartMessages == {"RobotOption", "Name", "Colour"}

Texts == {"Print", "Debug"}

Known == DOMAIN Commands \cup DOMAIN Drawings \cup StartMessages \cup Texts

SEND_SIGNAL           == 0
SEND_ROTATION_REACHED == 1
SIGNAL                == 2
USE_NON_BLOCKING      == 3

\* A robot object before its first process: Robot::Robot.
NewRobot ==
    [plain |-> <<>>, nr |-> 0, named |-> FALSE, team |-> "",
     colour |-> Foreground, coloured |-> FALSE, competed |-> FALSE,
     signal |-> 0, rotation |-> 0, nonblocking |-> TRUE]

-----------------------------------------------------------------------------
(***************************************************************************)
(* Names and colours.  R is a function like robot, s a set of robots.      *)
(***************************************************************************)
\* is_colour_allowed
IsColourAllowed(R, s, r, c) == c # Background /\ \A q \in s \ {r} : R[q].colour # c

AllowedColours(R, s, r) == {c \in Colours : IsColourAllowed(R, s, r, c)}

TeamMates(R, s, r) ==
    {q \in s \ {r} : R[r].team # "" /\ R[q].coloured /\ R[q].team = R[r].team}

\* Mutation of FreeColours: the colour asked for is not compared with the others.
FreeColoursAsAsked(R, s, r, home, away) ==
    IF home # Background THEN {home} ELSE AllowedColours(R, s, r)

\* find_free_colour: the colours it may return; a random one if neither of those
\* asked for is free, or if there are none ({}).
FreeColours(R, s, r, home, away) ==
    IF TeamMates(R, s, r) # {}
    THEN {R[CHOOSE q \in TeamMates(R, s, r) : \A p \in TeamMates(R, s, r) : q <= p].colour}
    ELSE IF home \in AllowedColours(R, s, r) THEN {home}
    ELSE IF away \in AllowedColours(R, s, r) THEN {away}
    ELSE AllowedColours(R, s, r)

\* Mutation of CheckedAgainst: the number is compared before others get theirs.
CheckedAgainstFirst(R, r, q) ==
    IF q = r \/ R[q].plain # R[r].plain THEN R
    ELSE [R EXCEPT ![q].nr = IF @ = 0 THEN 1 ELSE @,
                   ![r].nr = IF @ = 0 THEN R[q].nr + 1 ELSE @]

\* One turn of the loop in check_name_uniqueness; first_avail is one more than the
\* largest number of a robot of this name seen so far.
CheckedAgainst(R, r, q) ==
    IF q = r \/ R[q].plain # R[r].plain THEN R
    ELSE LET n     == IF R[q].nr = 0 THEN 1 ELSE R[q].nr
             seen  == {R[p].nr : p \in {p \in 1 .. q - 1 : p # r /\ R[p].plain = R[r].plain}}
             avail == 1 + CHOOSE m \in seen \cup {n} : \A k \in seen \cup {n} : k <= m
         IN  [R EXCEPT ![q].nr = n,
                       ![r].nr = IF @ \in {0, n} THEN avail ELSE @]

\* check_name_uniqueness, the loop over all robots of the tournament.
CheckNameUniqueness(R, r) ==
    LET checked[q \in 0 .. NumberOfRobots] ==
          IF q = 0 THEN R ELSE CheckedAgainst(checked[q - 1], r, q)
    IN  checked[NumberOfRobots]

\* set_values_at_process_start_up.  The colour found must be chosen from FreeColours.
StartedUp(R, r, c) ==
    IF ~ R[r].competed
    THEN [R EXCEPT ![r].coloured = FALSE, ![r].named = FALSE]
    ELSE [R EXCEPT ![r].colour = c]

-----------------------------------------------------------------------------
(***************************************************************************)
(* get_messages.  A record m holds what it works on:                       *)
(*   buf      bufferstream                                                 *)
(*   failed   the stream has failed, the loop ends                         *)
(*   pipe     what is left in the pipe                                     *)
(*   in       instreamp is good: the read was not ended by the end of the  *)
(*            input                                                        *)
(*   robot    as the variable                                              *)
(*   applied  the messages accepted, warned: a warning was sent            *)
(*   pick     how numbers that were not read and random colours come out   *)
(***************************************************************************)
IsNL(w) == w = "NL"

Numbers == DOMAIN ValueOf \cup Colours

\* The number of words before the first line end.
LineLength(b) ==
    CHOOSE k \in 0 .. Len(b) :
      /\ k = Len(b) \/ IsNL(b[k + 1])
      /\ \A i \in 1 .. k : ~ IsNL(b[i])

RestOfLine(b) == SubSeq(b, 1, LineLength(b))

AfterLine(b) == SubSeq(b, LineLength(b) + 1, Len(b))

\* >> ws
SkipSpace(b) ==
    LET n == CHOOSE k \in 0 .. Len(b) :
               /\ k = Len(b) \/ ~ IsNL(b[k + 1])
               /\ \A i \in 1 .. k : IsNL(b[i])
    IN  SubSeq(b, n + 1, Len(b))

\* get(msg_name, 80, ' ') stops at a space, not at the end of a line.
NameLength(b) ==
    CHOOSE k \in 1 .. Len(b) :
      /\ k = Len(b) \/ (~ IsNL(b[k]) /\ ~ IsNL(b[k + 1]))
      /\ \A i \in 1 .. k - 1 : IsNL(b[i]) \/ IsNL(b[i + 1])

\* name2msg_from_robot_type
MessageName(b) ==
    IF NameLength(b) = 1 /\ b[1] \in Known THEN b[1] ELSE "Unknown"

\* Mutation of DropLine: the line end is dropped too, and the next line with it.
DropLineAndNext(m) ==
    [m EXCEPT !.buf = AfterLine(SkipSpace(AfterLine(@)))]

\* get(buffer, 80, '\n')
DropLine(m) == [m EXCEPT !.buf = AfterLine(@)]

\* The first n numbers of b, read across line ends, and what follows them; less if
\* there is something else before.
NumbersRead(b, n) ==
    LET read[i \in 0 .. n] ==
          IF i = 0 THEN [args |-> <<>>, rest |-> b]
          ELSE LET next == SkipSpace(read[i - 1].rest)
               IN  IF \/ Len(read[i - 1].args) < i - 1
                      \/ next = <<>>
                      \/ Head(next) \notin Numbers
                   THEN read[i - 1]
                   ELSE [args |-> Append(read[i - 1].args, Head(next)), rest |-> Tail(next)]
    IN  read[n]

\* The arguments of a message.
Arguments(b, n) == NumbersRead(b, n).args

\* >> number >> number ...: the stream fails where there is none.
ReadNumbers(m, n) ==
    [m EXCEPT !.buf = NumbersRead(@, n).rest, !.failed = Len(Arguments(m.buf, n)) < n]

\* Number i of the arguments; not a number that was read: whatever it happens to be.
Value(m, n, i) ==
    LET a == Arguments(m.buf, n)
    IN  IF i <= Len(a) /\ a[i] \in DOMAIN ValueOf THEN ValueOf[a[i]] ELSE m.pick.number

Applied(m, line) == [m EXCEPT !.applied = Append(@, line)]

Warned(m) == [m EXCEPT !.warned = TRUE]

\* check_state_for_message when the state is wrong.  The rest of the line is dropped
\* from the pipe, which has it only if get_messages has left something there; the
\* arguments stay in the buffer.
WrongState(m) ==
    LET n == IF m.state = "BEFORE_GAME_START" THEN m ELSE Warned(m)
    IN  IF n.in THEN [n EXCEPT !.pipe = AfterLine(@), !.in = FALSE] ELSE n

\* The colour picked, if it is one of the set.
Picked(colour, set) == IF colour \in set THEN colour ELSE CHOOSE c \in set : TRUE

\* set_non_blocking_state: the process is killed and a new one started, whose pipe
\* is empty; the buffer goes on being parsed.
SetNonBlocking(m, r, val) ==
    IF val = m.robot[r].nonblocking THEN m
    ELSE LET R == [m.robot EXCEPT ![r].nonblocking = val]
             c == Picked(m.pick.colour, FreeColours(R, members, r, R[r].colour, R[r].colour))
         IN  [m EXCEPT !.robot = StartedUp(R, r, c), !.pipe = <<>>, !.in = FALSE]

\* case ROBOT_OPTION
RobotOption(m, r) ==
    LET opt == Value(m, 1, 1)
        val == Value(m, 2, 2)
        n   == Applied(ReadNumbers(m, 2), <<"RobotOption">> \o Arguments(m.buf, 2))
    IN  CASE opt = SEND_SIGNAL -> [n EXCEPT !.robot[r].signal = IF val = 1 THEN SIGUSR1 ELSE 0]
          [] opt = SIGNAL ->
               [n EXCEPT !.robot[r].signal = IF val \in 1 .. NSIG - 1 THEN val ELSE 0,
                         !.warned = @ \/ val >= NSIG]
          [] opt = SEND_ROTATION_REACHED ->
               [n EXCEPT !.robot[r].rotation = IF val > 2 THEN 2 ELSE val]
          [] opt = USE_NON_BLOCKING -> SetNonBlocking(n, r, val # 0)
          [] OTHER -> Warned(ReadNumbers(m, 1))

\* case NAME.  A robot that has been in a team is never out of one again.
TakeName(m, r) ==
    LET name == RestOfLine(m.buf)
        team == TeamOf(name)
        R    == [m.robot EXCEPT ![r].plain = name,
                                ![r].team = IF team # "" THEN team ELSE @,
                                ![r].named = TRUE]
    IN  Applied([DropLine(m) EXCEPT !.robot = CheckNameUniqueness(R, r)], <<"Name">> \o name)

\* case COLOUR
TakeColour(m, r) ==
    LET args == Arguments(m.buf, 2)
        free == IF Len(args) = 2 THEN FreeColours(m.robot, members, r, args[1], args[2])
                ELSE FreeColours(m.robot, members, r, Background, Background)
    IN  Applied([ReadNumbers(m, 2) EXCEPT !.robot[r].colour = Picked(m.pick.colour, free),
                                          !.robot[r].coloured = TRUE],
                <<"Colour">> \o args)

\* The switch over the message types.
Handle(m, r, msg) ==
    CASE msg = "Unknown" -> Warned(DropLine(m))
      [] msg \in StartMessages /\ m.state # "STARTING_ROBOTS" -> WrongState(m)
      [] msg \in DOMAIN Commands \cup DOMAIN Drawings /\ m.state # "GAME_IN_PROGRESS" ->
           WrongState(IF msg = "Break" THEN Warned(m) ELSE m)
      [] msg = "RobotOption" /\ m.state = "STARTING_ROBOTS" -> RobotOption(m, r)
      [] msg = "Name" /\ m.state = "STARTING_ROBOTS" -> TakeName(m, r)
      [] msg = "Colour" /\ m.state = "STARTING_ROBOTS" -> TakeColour(m, r)
      [] msg \in DOMAIN Commands /\ m.state = "GAME_IN_PROGRESS" ->
           LET n == Applied(ReadNumbers(m, Commands[msg]),
                            <<msg>> \o Arguments(m.buf, Commands[msg]))
           IN  IF msg = "Break" THEN Warned(n) ELSE n
      [] msg \in DOMAIN Drawings /\ m.state = "GAME_IN_PROGRESS" ->
           IF MaxDebugLevel
           THEN Applied(ReadNumbers(m, Drawings[msg]), <<msg>> \o Arguments(m.buf, Drawings[msg]))
           ELSE Warned(m)
      [] msg \in Texts -> Applied(DropLine(m), <<msg>> \o RestOfLine(m.buf))

\* One turn of the loop of get_messages.
TakeMessage(m, r) ==
    IF m.failed \/ m.buf = <<>> THEN m
    ELSE LET rest == SkipSpace(SubSeq(m.buf, NameLength(m.buf) + 1, Len(m.buf)))
             n    == Handle([m EXCEPT !.buf = rest], r, MessageName(m.buf))
         IN  [n EXCEPT !.buf = SkipSpace(@)]

\* The loop of get_messages.  Every turn takes at least a word out of the buffer.
Parse(m, r) ==
    LET turn[k \in 0 .. Len(m.buf)] == IF k = 0 THEN m ELSE TakeMessage(turn[k - 1], r)
    IN  turn[Len(m.buf)]

\* instreamp->read(streambuffer, 4096)
ReadLength(b) == IF Len(b) < ReadLimit THEN Len(b) ELSE ReadLimit

Unread(b) == SubSeq(b, ReadLength(b) + 1, Len(b))

\* get_messages of robot r in arena state s.
GetMessages(r, s, pick) ==
    Parse([buf |-> SkipSpace(SubSeq(pipe[r], 1, ReadLength(pipe[r]))), failed |-> FALSE,
           pipe |-> Unread(pipe[r]),
           in |-> Len(pipe[r]) >= ReadLimit, state |-> s, robot |-> robot,
           applied |-> <<>>, warned |-> FALSE, pick |-> pick], r)

-----------------------------------------------------------------------------
(***************************************************************************)
(* The arena, as far as it decides when messages are read, and the robots. *)
(***************************************************************************)
Picks == [number : Range(ValueOf), colour : Colours]

\* What get_messages may come to.  In other states nothing depends on the picks.
Outcomes(r) ==
    {GetMessages(r, state, pick) :
       pick \in IF state = "STARTING_ROBOTS" THEN Picks ELSE {CHOOSE p \in Picks : TRUE}}

\* The lines of a sequence of words and line ends.
LinesIn(b) ==
    LET step(acc, w) == IF IsNL(w) THEN [done |-> Append(acc.done, acc.line), line |-> <<>>]
                        ELSE [acc EXCEPT !.line = Append(@, w)]
    IN  FoldLeft(step, [done |-> <<>>, line |-> <<>>], b).done

\* History of reading pipe[r]; nothing is known about reads that begin or end
\* inside a line.
ReadRecord(r, s, m) ==
    IF r \in cut \/ Len(pipe[r]) > ReadLimit THEN {}
    ELSE {[state |-> s, lines |-> LinesIn(pipe[r]), applied |-> m.applied, warned |-> m.warned]}

\* The pipe that is left begins inside a line, or its first line has been dropped.
CutsLine(r, m) ==
    /\ m.pipe # <<>>
    /\ m.pipe # Unread(pipe[r]) \/ ~ IsNL(pipe[r][ReadLimit])

\* start_process of robot r, if it is in the sequence s; colour is what a random
\* colour comes out as.
StartProcess(R, s, r, colour) ==
    IF r \notin s THEN R
    ELSE StartedUp(R, r, Picked(colour, FreeColours(R, s, r, R[r].colour, R[r].colour)))

\* The loop of start_sequence.
StartProcesses(s, colour) ==
    LET started[r \in 0 .. NumberOfRobots] ==
          IF r = 0 THEN robot ELSE StartProcess(started[r - 1], s, r, colour)
    IN  started[NumberOfRobots]

\* start_sequence, for the first time or from end_sequence_follow_up: new processes
\* for the robots chosen.
StartSequence ==
    /\ state \in {"NOT_STARTED", "SHUTTING_DOWN_ROBOTS"}
    /\ sequence_nr < SequencesInTournament
    /\ \E s \in Lineups, colour \in Colours :
         /\ members' = s
         /\ robot' = StartProcesses(s, colour)
    /\ state' = "STARTING_ROBOTS"
    /\ sequence_nr' = sequence_nr + 1
    /\ game_nr' = 0
    /\ pipe' = [r \in Robots |-> <<>>]
    /\ cut' = {}
    /\ alive' = {}
    /\ lastRead' = {}
    /\ UNCHANGED written

\* A process writes a line.
Write(r) ==
    /\ r \in members
    /\ written < MaxLines
    /\ \E line \in Lines : pipe' = [pipe EXCEPT ![r] = @ \o line \o <<"NL">>]
    /\ written' = written + 1
    /\ lastRead' = {}
    /\ UNCHANGED <<state, sequence_nr, game_nr, members, alive, robot, cut>>

\* get_messages from read_robot_messages, update_robots and the shutdown.
ReadMessages(r) ==
    /\ state \in {"STARTING_ROBOTS", "GAME_IN_PROGRESS", "SHUTTING_DOWN_ROBOTS"}
    /\ r \in members
    /\ state = "GAME_IN_PROGRESS" => r \in alive
    /\ pipe[r] # <<>>
    /\ \E m \in Outcomes(r) :
         /\ robot' = m.robot
         /\ pipe' = [pipe EXCEPT ![r] = m.pipe]
         /\ cut' = IF CutsLine(r, m) THEN cut \cup {r} ELSE cut \ {r}
         /\ lastRead' = ReadRecord(r, state, m)
    /\ UNCHANGED <<state, sequence_nr, game_nr, members, alive, written>>

\* The end of a game: everybody has a result.
Scored == [r \in Robots |-> [robot[r] EXCEPT !.competed = @ \/ r \in members]]

\* start_game with the robots R: what has been written before is read in
\* BEFORE_GAME_START.
StartGame(R) ==
    /\ LET pick == CHOOSE p \in Picks : TRUE
           m(r) == GetMessages(r, "BEFORE_GAME_START", pick)
       IN  /\ pipe' = [r \in Robots |-> IF r \in members THEN m(r).pipe ELSE pipe[r]]
           /\ cut' = {r \in members : CutsLine(r, m(r))}
           /\ lastRead' = UNION {ReadRecord(r, "BEFORE_GAME_START", m(r)) : r \in members}
    /\ robot' = R
    /\ state' = "GAME_IN_PROGRESS"
    /\ game_nr' = game_nr + 1
    /\ alive' = members
    /\ UNCHANGED <<sequence_nr, members, written>>

\* A robot of the sequence that has not asked for a colour gets one.
GiveColour(R, r, colour) ==
    IF r \notin members \/ R[r].coloured THEN R
    ELSE [R EXCEPT ![r].coloured = TRUE,
                   ![r].colour = Picked(colour, FreeColours(R, members, r, Background, Background))]

\* The loop of start_sequence_follow_up.
GiveColours(colour) ==
    LET given[r \in 0 .. NumberOfRobots] ==
          IF r = 0 THEN robot ELSE GiveColour(given[r - 1], r, colour)
    IN  given[NumberOfRobots]

\* start_sequence_follow_up: those without a colour get one.
StartSequenceFollowUp ==
    /\ state = "STARTING_ROBOTS"
    /\ \E colour \in Colours : StartGame(GiveColours(colour))

\* end_game when there are more games in the sequence.
NextGame ==
    /\ state = "GAME_IN_PROGRESS"
    /\ game_nr < GamesPerSequence
    /\ StartGame(Scored)

\* end_game and end_sequence after the last game.
EndSequence ==
    /\ state = "GAME_IN_PROGRESS"
    /\ game_nr = GamesPerSequence
    /\ state' = "SHUTTING_DOWN_ROBOTS"
    /\ robot' = Scored
    /\ alive' = {}
    /\ lastRead' = {}
    /\ UNCHANGED <<sequence_nr, game_nr, members, pipe, cut, written>>

\* A robot dies in the game; its messages are not read until the next one.
RobotDies(r) ==
    /\ state = "GAME_IN_PROGRESS"
    /\ r \in alive
    /\ alive' = alive \ {r}
    /\ lastRead' = {}
    /\ UNCHANGED <<state, sequence_nr, game_nr, members, robot, pipe, cut, written>>

Init ==
    /\ state = "NOT_STARTED"
    /\ sequence_nr = 0
    /\ game_nr = 0
    /\ members = {}
    /\ alive = {}
    /\ robot = [r \in Robots |-> NewRobot]
    /\ pipe = [r \in Robots |-> <<>>]
    /\ cut = {}
    /\ lastRead = {}
    /\ written = 0

Next ==
    \/ StartSequence
    \/ StartSequenceFollowUp
    \/ NextGame
    \/ EndSequence
    \/ \E r \in Robots : Write(r) \/ ReadMessages(r) \/ RobotDies(r)

Spec == Init /\ [][Next]_vars

-----------------------------------------------------------------------------
(***************************************************************************)
(* Properties.                                                             *)
(***************************************************************************)

\* The line is a message with all its arguments that may be sent in state s.
Legal(line, s) ==
    /\ line \in Lines /\ Head(line) \in Known
    /\ Head(line) \in StartMessages => s = "STARTING_ROBOTS"
    /\ Head(line) \in DOMAIN Commands => s = "GAME_IN_PROGRESS"
    /\ Head(line) \in DOMAIN Drawings => s = "GAME_IN_PROGRESS" /\ MaxDebugLevel

\* Get_messages finds its messages with single reads of words, not line by line.
\* Still, out of a reading of whole lines it takes lines that are legal in the
\* state of the arena, in their order and each once, and no others; a legal line
\* is lost only right behind an illegal one; and the robot is warned when
\* something is lost, unless the game is just starting.
ReadAsWritten ==
    \A rd \in lastRead :
      LET idx   == DOMAIN rd.lines
          legal == {i \in idx : Legal(rd.lines[i], rd.state)}
          must  == {i \in legal : i = 1 \/ i - 1 \in legal}
      IN  /\ \E taken \in SUBSET legal :
               /\ must \subseteq taken
               /\ rd.applied = [k \in 1 .. Cardinality(taken) |->
                                  rd.lines[SetToSortSeq(taken, <)[k]]]
          /\ legal # idx /\ rd.state # "BEFORE_GAME_START" => rd.warned

\* No two robots of the tournament appear under the same name, in whatever order
\* they choose and change their names and over all sequences, although a robot
\* keeps its number when it changes its name (check_name_uniqueness).
UniqueNames ==
    \A r, q \in Robots :
      r # q /\ robot[r].plain # <<>> /\ robot[r].plain = robot[q].plain =>
        robot[r].nr # robot[q].nr

\* In a game a robot that is in no team shares its colour with nobody, and no robot
\* has the colour of the background, whoever asks for which colour when and
\* whoever was restarted or comes from another sequence (find_free_colour,
\* set_values_at_process_start_up, start_sequence_follow_up).  Of two teams nothing
\* is said: their colours are not compared when they meet in a later sequence.
DistinctColours ==
    state = "GAME_IN_PROGRESS" =>
      \A r \in members :
        /\ robot[r].colour # Background
        /\ \A q \in members \ {r} :
             robot[q].colour = robot[r].colour => robot[r].team # "" /\ robot[q].team # ""
=============================================================================
