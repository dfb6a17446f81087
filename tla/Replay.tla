------------------------------- MODULE Replay -------------------------------
(***************************************************************************)
(* Replaying a log (ArenaReplay) with the buttons and the slider of the    *)
(* control window.  The log is read forwards to play it and, while Rewind  *)
(* is held down, one time step after the other backwards, each line        *)
(* undoing what it does when read forwards.  The log is written first, by  *)
(* BattleLog, and replayed when it is complete.                            *)
(*                                                                         *)
(* current_replay_time is the time step shown, total_time the clock that   *)
(* playing waits for.  The user has one pointer: while a button is held    *)
(* down no other one is used.                                              *)
(***************************************************************************)
EXTENDS BattleLog, Integers

CONSTANTS
    FastForwardFactor,  \* OPTION_FAST_FORWARD_FACTOR
    MaxClicks           \* bound: how often the user acts

VARIABLES
    state,      \* of the arena
    server,     \* "up", "fatal" after Error(true, ...), "crashed" by a NULL pointer
    shown,      \* what reading the log changes, a record
    factor,     \* fast_forward_factor
    pressed,    \* a button is held down
    widgets,    \* the replay widgets are displayed
    stepped,    \* history: a step button was used in this game
    jumped,     \* history: the slider was moved in this game
    moved,      \* history: and nothing has been read since
    clicks      \* history: user actions so far

vars == <<logVars, state, server, shown, factor, pressed, widgets, stepped, jumped, moved, clicks>>

-----------------------------------------------------------------------------
(***************************************************************************)
(* The index that get_time_positions_in_game makes of the game whose line  *)
(* is at position g of the log.                                            *)
(***************************************************************************)
\* The lines of the game, up to the next game's line.
GameLines(g) ==
    {p \in g + 1 .. Len(log) : \A q \in g + 1 .. p : log[q].c # "G"}

\* Mutation of Index: what dies in the time step of its birth is not entered.
IndexSkipsShortLived(g) ==
    LET lines     == GameLines(g)
        times     == SetToSortSeq({p \in lines : log[p].c = "T"}, <)
        timeOf(p) == log[CHOOSE q \in ToSet(times) :
                           q <= p /\ \A r \in ToSet(times) : r <= p => r <= q].t
        births(o) == {p \in lines : log[p].c = o[1] /\ log[p].o = o}
        deaths(o) == {p \in lines : log[p].c = "D" /\ log[p].o = o}
        found     == {o \in Robots \cup Objects :
                        /\ births(o) # {}
                        /\ \A p \in births(o), q \in deaths(o) : o \in Robots \/ timeOf(p) < timeOf(q)}
    IN  [times |-> times,
         start |-> [o \in found |-> IF o \in Robots THEN 0
                                    ELSE timeOf(CHOOSE p \in births(o) : TRUE)],
         end   |-> [o \in found |-> IF deaths(o) = {} THEN Timeout
                                    ELSE timeOf(CHOOSE p \in deaths(o) : TRUE)],
         died  |-> {o \in found : deaths(o) # {}}]

\* times  time_position_in_log: the positions of the time lines
\* start, end  object_positions_in_log: when an object is born and dies; what does
\*        not die ends with the timeout, and robots start at 0
\* died   what dies in the game
Index(g) ==
    LET lines     == GameLines(g)
        times     == SetToSortSeq({p \in lines : log[p].c = "T"}, <)
        timeOf(p) == log[CHOOSE q \in ToSet(times) :
                           q <= p /\ \A r \in ToSet(times) : r <= p => r <= q].t
        births(o) == {p \in lines : log[p].c = o[1] /\ log[p].o = o}
        deaths(o) == {p \in lines : log[p].c = "D" /\ log[p].o = o}
        found     == {o \in Robots \cup Objects : births(o) # {}}
    IN  [times |-> times,
         start |-> [o \in found |-> IF o \in Robots THEN 0
                                    ELSE timeOf(CHOOSE p \in births(o) : TRUE)],
         end   |-> [o \in found |-> IF deaths(o) = {} THEN Timeout
                                    ELSE timeOf(CHOOSE p \in deaths(o) : TRUE)],
         died  |-> {o \in found : deaths(o) # {}}]

NoIndex == [times |-> <<>>, start |-> <<>>, end |-> <<>>, died |-> {}]

\* find_object_in_log finds something.
InLog(m, o) == o \in DOMAIN m.index.start

\* The robots that get_time_positions_in_game puts on the list.
RobotsIn(m) == {r \in Robots : InLog(m, r)}

\* make_statistics_from_file has a result of robot r for the game.
HasStats(m, r) == r \in m.index.died

TimeAt(m, i) == log[m.index.times[i + 1]].t

HasIndex(m, i) == i \in 0 .. Len(m.index.times) - 1

\* The number of the last time step not after t.
LastUpTo(m, t) == Cardinality({i \in DOMAIN m.index.times : TimeAt(m, i - 1) <= t}) - 1

\* find_streampos_for_time: -1 ("Time not found") if there is no time step behind t.
FindStreampos(m, t) == IF HasIndex(m, LastUpTo(m, t) + 1) THEN LastUpTo(m, t) ELSE -1

GamePositions == {p \in 1 .. Len(log) : log[p].c = "G"}

\* game_position_in_log; a game that is not there has the position 0 of a new
\* streampos, the beginning of the file.
GamePosition(s, n) ==
    IF \E p \in GamePositions : log[p].seq = s /\ log[p].game = n
    THEN CHOOSE p \in GamePositions : log[p].seq = s /\ log[p].game = n
    ELSE 1

-----------------------------------------------------------------------------
(***************************************************************************)
(* Reading lines.  A record m holds what they change:                      *)
(*   game      position of the current game's line, 0 before the first     *)
(*   index     what get_time_positions_in_game has found in it             *)
(*   pos       position of the next line in the file                       *)
(*   stream    "good", "end": eofbit, "failed": eofbit and failbit,        *)
(*             "lost": failbit alone                                       *)
(*   current   current_replay_time                                         *)
(*   total     total_time                                                  *)
(*   copies    how often an object is in its list                          *)
(*   alive, robots_left, killed (robots_killed_this_round)                 *)
(*   begun     a game's line has been read: set_state(BEFORE_GAME_START)   *)
(*   fatal     Error(true, ...), or a NULL pointer was used                *)
(***************************************************************************)
Nothing == [o \in Objects |-> 0]

Opened ==
    [game |-> 0, index |-> NoIndex, pos |-> 1, stream |-> "good", current |-> 0, total |-> 0,
     copies |-> Nothing, alive |-> {}, robots_left |-> 0, killed |-> 0,
     begun |-> FALSE, fatal |-> FALSE]

Add(m, o) == [m EXCEPT !.copies[o] = @ + 1]

\* Mutation of Erase: the list keeps it.
EraseNothing(m, o) == m

\* die and erase, if find_object_by_id finds it.
Erase(m, o) == IF m.copies[o] > 0 THEN [m EXCEPT !.copies[o] = @ - 1] ELSE m

\* change_position of a robot shows its score, for which get_current_game_stats
\* needs a result of the current game: "Couldn't find stats".
ShowScore(m, r) == [m EXCEPT !.fatal = @ \/ r \notin RobotsIn(m) \/ ~ HasStats(m, r)]

\* parse_log_line_forward
LineForward(m, l) ==
    CASE l.c = "R" -> LET n == ShowScore(m, l.o) IN [n EXCEPT !.alive = @ \cup {l.o}]
      [] l.c \in {"S", "C"} -> Add(m, l.o)
      [] l.c = "D" /\ l.o \in Robots ->
           IF l.o \notin RobotsIn(m) THEN [m EXCEPT !.fatal = TRUE]
           ELSE IF l.o \in m.alive THEN [m EXCEPT !.alive = @ \ {l.o}, !.killed = @ + 1]
           ELSE m
      [] l.c = "D" /\ l.o \notin Robots -> Erase(m, l.o)

\* Mutation of LineRewind: a dead robot is not counted again.
LineRewindUncounted(m, l) ==
    CASE l.c = "R" -> [m EXCEPT !.alive = @ \cup {l.o}]
      [] l.c \in {"S", "C"} -> Erase(m, l.o)
      [] l.c = "D" /\ l.o \in Robots -> m
      [] l.c = "D" /\ l.o \notin Robots ->
           IF m.index.end[l.o] > m.index.start[l.o] THEN Add(m, l.o) ELSE m

\* parse_log_line_rewind: a robot is revived by its next position line, an object
\* by the line of its death, unless it lived for no time.
LineRewind(m, l) ==
    CASE l.c = "R" ->
           LET n == ShowScore(m, l.o)
           IN  IF l.o \in m.alive THEN n
               ELSE [n EXCEPT !.alive = @ \cup {l.o}, !.killed = @ - 1]
      [] l.c \in {"S", "C"} -> Erase(m, l.o)
      [] l.c = "D" /\ l.o \in Robots -> m
      [] l.c = "D" /\ l.o \notin Robots ->
           IF ~ InLog(m, l.o) THEN [m EXCEPT !.fatal = TRUE]
           ELSE IF m.index.end[l.o] > m.index.start[l.o] THEN Add(m, l.o)
           ELSE m

\* parse_log_line.  A game's line clears all lists and the clock.
ParseLine(m, dir) ==
    LET l == log[m.pos]
        n == [m EXCEPT !.pos = @ + 1]
    IN  CASE l.c = "H" -> n
          [] l.c = "T" -> [n EXCEPT !.current = l.t]
          [] l.c = "G" -> [n EXCEPT !.game = m.pos, !.index = Index(m.pos), !.current = 0, !.total = 0,
                                    !.copies = Nothing, !.killed = 0,
                                    !.robots_left = NumberOfRobots, !.begun = TRUE]
          [] OTHER -> IF dir > 0 THEN LineForward(n, l) ELSE LineRewind(n, l)

RECURSIVE ReadLines(_, _, _)

\* The loop of parse_this_time_index.  It does not stop while the time is 0, so the
\* first two time steps of a game are read together, and together with the last
\* one of the game before.
ReadLines(m, next_replay_time, dir) ==
    IF m.pos > Len(log) THEN [m EXCEPT !.stream = "failed"]
    ELSE IF log[m.pos].c = "T" /\ m.current # 0
         THEN [m EXCEPT !.current = next_replay_time,
                        !.robots_left = @ - m.killed,
                        !.killed = 0]
         ELSE LET n == ParseLine(m, dir)
              IN  ReadLines(n, IF n.current = 0 THEN 0 ELSE next_replay_time, dir)

\* parse_this_time_index: reads the time line it stands at and everything up to
\* the next one.
ParseTimeIndex(m, dir) ==
    CASE m.stream = "lost" -> [m EXCEPT !.pos = Len(log) + 1, !.stream = "end"]
      [] m.stream \in {"end", "failed"} -> [m EXCEPT !.stream = "failed"]
      [] m.stream = "good" ->
           LET n == IF log[m.pos].c = "T" THEN ParseLine(m, dir) ELSE m
           IN  ReadLines(n, n.current, dir)

Eof(m) == m.stream \in {"end", "failed"}

\* seekg: a failed stream forgets that it is at its end, but does not move.
Seek(m, p) ==
    IF m.stream \in {"failed", "lost"} THEN [m EXCEPT !.stream = "lost"]
    ELSE [m EXCEPT !.pos = p, !.stream = "good"]

\* step_forward: go n time steps on in the index of the game, if there is one.
CanStep(m, n) == HasIndex(m, FindStreampos(m, m.current) + n)

\* To time step i of the game.
GoTo(m, i) == Seek([m EXCEPT !.current = TimeAt(m, i)], m.index.times[i + 1])

StepTo(m, n) == GoTo(m, FindStreampos(m, m.current) + n)

StepForward(m, n, dir) ==
    IF CanStep(m, n)
    THEN LET s == StepTo(m, n) IN ParseTimeIndex([s EXCEPT !.total = s.current], dir)
    ELSE m

RECURSIVE ParseInterval(_, _)

\* parse_this_interval reads until it has caught up with the clock.
ParseInterval(m, dir) ==
    IF dir > 0
    THEN IF ~ Eof(m) /\ m.total >= m.current
         THEN ParseInterval(ParseTimeIndex(m, dir), dir)
         ELSE m
    ELSE IF ~ Eof(m) /\ m.total <= m.current /\ CanStep(m, -1)
         THEN ParseInterval(ParseTimeIndex(StepTo(m, -1), dir), dir)
         ELSE m
-----------------------------------------------------------------------------
(***************************************************************************)
(* The arena's timer and the control window.                               *)
(***************************************************************************)
Replaying == closed /\ server = "up"

\* The parts of every step: m is what has been read, s the state apart from what a
\* game's line has set.
Show(m, s) ==
    /\ shown' = [m EXCEPT !.begun = FALSE]
    /\ server' = IF m.fatal THEN "fatal" ELSE "up"
    /\ state' = IF m.begun THEN "BEFORE_GAME_START" ELSE s

\* What the history variables become; a new game starts afresh.
History(m, step, jump) ==
    /\ stepped' = (~ m.begun /\ (stepped \/ step))
    /\ jumped' = (~ m.begun /\ (jumped \/ jump))
    /\ moved' = (jump \/ (moved /\ m.pos = shown.pos))

\* update_timer
Clock == LET t == shown.total + factor IN IF t > 0 THEN t ELSE 0

\* timeout_function in NOT_STARTED: start_tournament.
TickNotStarted ==
    /\ Replaying /\ state = "NOT_STARTED"
    /\ state' = "BEFORE_GAME_START"
    /\ UNCHANGED <<logVars, server, shown, factor, pressed, widgets, stepped, jumped, moved, clicks>>

\* timeout_function in GAME_IN_PROGRESS.  At the end of the log the widgets and the
\* arena window are closed.
TickGame ==
    /\ Replaying /\ state = "GAME_IN_PROGRESS"
    /\ LET m == ParseInterval([shown EXCEPT !.total = Clock], factor)
       IN  /\ IF Eof(m)
              THEN Show([m EXCEPT !.begun = FALSE], "FINISHED") /\ widgets' = FALSE
              ELSE Show(m, state) /\ UNCHANGED widgets
           /\ History(m, FALSE, FALSE)
    /\ UNCHANGED <<logVars, factor, pressed, clicks>>

\* timeout_function in BEFORE_GAME_START: the arena window is drawn, even if the
\* log has ended and it has just been closed.
TickBeforeGame ==
    /\ Replaying /\ state = "BEFORE_GAME_START"
    /\ LET m == ParseInterval([shown EXCEPT !.total = Clock], factor)
       IN  /\ shown' = [m EXCEPT !.begun = FALSE]
           /\ server' = CASE m.fatal -> "fatal"
                          [] ~ m.fatal /\ Eof(m) -> "crashed"
                          [] ~ m.fatal /\ ~ Eof(m) -> "up"
           /\ state' = "GAME_IN_PROGRESS"
           /\ History(m, FALSE, FALSE)
    /\ widgets' = TRUE
    /\ UNCHANGED <<logVars, factor, pressed, clicks>>

\* The user does something, with the pointer that no held button needs.
Click ==
    /\ Replaying /\ widgets /\ pressed = "none" /\ clicks < MaxClicks
    /\ clicks' = clicks + 1
    /\ UNCHANGED <<logVars, widgets>>

\* change_speed(false, true): the current time step is undone first.
PressRewind ==
    /\ Click
    /\ pressed' = "rewind"
    /\ factor' = - FastForwardFactor
    /\ LET m == StepForward(shown, 0, -1) IN Show(m, state) /\ History(m, FALSE, FALSE)

\* change_speed(true, true)
PressFastForward ==
    /\ Click
    /\ pressed' = "forward"
    /\ factor' = FastForwardFactor
    /\ UNCHANGED <<state, server, shown, stepped, jumped, moved>>

\* change_speed(.., false): after a rewind the current time step is read forwards.
Release ==
    /\ Replaying /\ widgets /\ pressed # "none"
    /\ pressed' = "none"
    /\ factor' = 1
    /\ LET m == IF factor < 0 THEN StepForward(shown, 0, 1) ELSE shown
       IN  Show(m, state) /\ History(m, FALSE, FALSE)
    /\ UNCHANGED <<logVars, widgets, clicks>>

\* step_forward_or_backward(true)
ClickStepForward ==
    /\ Click
    /\ LET m == StepForward(shown, 1, factor) IN Show(m, state) /\ History(m, TRUE, FALSE)
    /\ UNCHANGED <<factor, pressed>>

\* step_forward_or_backward(false) undoes the current time step and the one
\* before, and reads that one again.
ClickStepBackward ==
    /\ Click
    /\ LET m == StepForward(StepForward(StepForward(shown, 0, -1), -1, -1), 0, 1)
       IN  Show(m, state) /\ History(m, TRUE, FALSE)
    /\ UNCHANGED <<factor, pressed>>

\* recreate_lists: what lives at the time jumped to, without what is born or dies
\* in that time step.
RecreateLists(m) ==
    [m EXCEPT !.copies = [o \in Objects |->
                            IF /\ InLog(m, o)
                               /\ m.index.start[o] < m.current
                               /\ m.current < m.index.end[o]
                            THEN 1 ELSE 0],
              !.alive = {r \in @ \cup RobotsIn(m) :
                           r \in RobotsIn(m) =>
                             \/ m.index.end[r] > m.current
                             \/ m.index.end[r] = m.current /\ r \in @}]

\* change_replay_time, when the slider is moved to another time.
MoveSlider ==
    /\ Click
    /\ \E t \in 0 .. Timeout + 1 :
       LET i == FindStreampos(shown, t) - 1
           m == GoTo([shown EXCEPT !.total = TimeAt(shown, i)], i)
       IN  /\ t # shown.current
           /\ HasIndex(shown, i)
           /\ Show(RecreateLists(m), state)
           /\ History(m, FALSE, TRUE)
    /\ UNCHANGED <<factor, pressed>>

\* The game that change_game goes to.
Target(inc_game, inc_seq) ==
    LET s == log[shown.game].seq
        n == log[shown.game].game + inc_game
    IN  CASE inc_seq = 0 /\ n > GamesPerSequence -> <<s + 1, n - GamesPerSequence>>
          [] inc_seq = 0 /\ n < 1 -> <<s - 1, n + GamesPerSequence>>
          [] inc_seq = 0 /\ n \in 1 .. GamesPerSequence -> <<s, n>>
          [] inc_seq < 0 -> <<s - 1, GamesPerSequence>>
          [] inc_seq > 0 -> <<s + 1, 1>>

\* change_game only moves the file position; playing on reads the game's line.
ClickGame ==
    /\ Click
    /\ \E inc \in {<<1, 0>>, <<-1, 0>>, <<0, 1>>, <<0, -1>>} :
       LET to == Target(inc[1], inc[2])
       IN  /\ to[1] \in 1 .. SequencesInTournament
           /\ shown' = Seek(shown, GamePosition(to[1], to[2]))
    /\ UNCHANGED <<state, server, factor, pressed, stepped, jumped, moved>>

\* pause_game_toggle
ClickPause ==
    /\ Click
    /\ \/ state = "GAME_IN_PROGRESS" /\ state' = "PAUSED"
       \/ state = "PAUSED" /\ state' = "GAME_IN_PROGRESS"
    /\ UNCHANGED <<server, shown, factor, pressed, stepped, jumped, moved>>

\* interrupt_tournament
ClickEnd ==
    /\ Replaying /\ widgets /\ pressed = "none" /\ clicks < MaxClicks
    /\ clicks' = clicks + 1
    /\ state \in {"GAME_IN_PROGRESS", "PAUSED"}
    /\ state' = "FINISHED"
    /\ widgets' = FALSE
    /\ shown' = [shown EXCEPT !.copies = Nothing]
    /\ UNCHANGED <<logVars, server, factor, pressed, stepped, jumped, moved>>

Init ==
    /\ LogInit
    /\ state = "NOT_STARTED"
    /\ server = "up"
    /\ shown = Opened
    /\ factor = 1
    /\ pressed = "none"
    /\ widgets = FALSE
    /\ stepped = FALSE
    /\ jumped = FALSE
    /\ moved = FALSE
    /\ clicks = 0

Write ==
    /\ LogNext
    /\ UNCHANGED <<state, server, shown, factor, pressed, widgets, stepped, jumped, moved, clicks>>

Tick == TickNotStarted \/ TickGame \/ TickBeforeGame

Next ==
    \/ Write
    \/ Tick
    \/ PressRewind
    \/ PressFastForward
    \/ Release
    \/ ClickStepForward
    \/ ClickStepBackward
    \/ MoveSlider
    \/ ClickGame
    \/ ClickPause
    \/ ClickEnd

Spec == Init /\ [][Next]_vars

-----------------------------------------------------------------------------
(***************************************************************************)
(* Properties.                                                             *)
(***************************************************************************)

\* A game is on the screen and its current time step has been read: the slider
\* has not just been moved.
OnScreen ==
    widgets /\ server = "up" /\ state # "FINISHED" /\ ~ Eof(shown) /\ ~ moved

\* The time up to which the events of the game should be on the screen.  At time 0
\* those of the first update are there already; while rewinding those of the
\* current time step are undone.
ShownTime ==
    IF factor < 0 THEN shown.current - 1
    ELSE IF shown.current = 0 THEN 1
    ELSE shown.current

\* The log has o between its birth and its death at time t.
LoggedAt(o, t) ==
    /\ InLog(shown, o)
    /\ shown.index.start[o] <= t
    /\ o \notin shown.index.died \/ shown.index.end[o] > t

\* "You can jump wherever you want in the game", "Fast forward and rewind work as
\* expected": the shots, cookies and mines on the screen are those that the log
\* has at that time, each once, after playing, rewinding and jumping in any order
\* (parse_log_line_forward, parse_log_line_rewind, recreate_lists, step_forward),
\* as long as the step buttons are not used.
ObjectsAsLogged ==
    OnScreen /\ ~ stepped =>
      \A o \in Objects : shown.copies[o] = IF LoggedAt(o, ShownTime) THEN 1 ELSE 0

\* Likewise for the robots, if every update is logged, and their number, which
\* the scores on the screen are computed from, if the slider is not used.
RobotsAsLogged ==
    OnScreen /\ factor > 0 /\ ~ stepped /\ LogEvery = 1 =>
      /\ shown.alive \cap RobotsIn(shown) = {r \in Robots : LoggedAt(r, ShownTime)}
      /\ ~ jumped => shown.robots_left = Cardinality(shown.alive)

\* No button, in no order, stops the program with an error, unless the log breaks
\* off in the middle of the game shown (the calls of Error(true, ...) in
\* ArenaReplay and in get_current_game_stats, and the objects that
\* find_object_in_log does not find).
OnlyCutLogsFail ==
    server = "fatal" => \E r \in Robots : ~ HasStats(shown, r)

=============================================================================
