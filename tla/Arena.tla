------------------------------- MODULE Arena -------------------------------
(***************************************************************************)
(* The tournament engine of the server: ArenaRealTime (timeout_function    *)
(* and everything it calls), the parts of ArenaBase it inherits, the       *)
(* scoring part of Robot, and the buttons of ControlWindow that reach into *)
(* a running tournament.                                                   *)
(*                                                                         *)
(* The server is one thread: update_function runs one tick                 *)
(* (ArenaRealTime::timeout_function) at a time and the GTK main loop runs  *)
(* button callbacks between two ticks.  A tick and a callback are          *)
(* therefore one atomic step each, interleaved in any order.               *)
(*                                                                         *)
(* Physics, messages and energy decide WHICH robots die in a tick; here    *)
(* that is any set of living robots.  Points are kept doubled (points2),   *)
(* because the code halves the adjustment for simultaneous deaths.         *)
(***************************************************************************)
EXTENDS Integers, Sequences, FiniteSets

CONSTANTS
    Robots,             \* all_robots_in_tournament
    RobotsPerGame,      \* robots_per_game
    GamesPerSequence,   \* games_per_sequence
    SequencesInTournament, \* sequences_in_tournament
    NumberOfArenas,     \* number_of_arenas
    BadArenas,          \* arenas whose file parse_arena_file rejects
    PlacementMayFail,   \* may a robot find no free place in 100 attempts
    GameMode,           \* game_mode: "NORMAL", "DEBUG" or "COMPETITION"
    Timeout,            \* OPTION_TIMEOUT
    CheckInterval,      \* OPTION_CHECK_INTERVAL
    StartupTime,        \* OPTION_ROBOT_STARTUP_TIME
    ShutdownTime,       \* the literal 1.0 in end_sequence
    MaxTimestep,        \* OPTION_MAX_TIMESTEP
    Garbage,            \* values of the uninitialised robots_left
    MaxClicks           \* bound: button presses in a behaviour

ASSUME SizeAssumption ==
    /\ IsFiniteSet(Robots)
    /\ RobotsPerGame \in 2 .. Cardinality(Robots)
    /\ GamesPerSequence \in Nat \ {0}
    /\ SequencesInTournament \in Nat \ {0}
    /\ NumberOfArenas \in Nat \ {0}
    /\ BadArenas \subseteq 1 .. NumberOfArenas

ASSUME ModeAssumption ==
    /\ PlacementMayFail \in BOOLEAN
    /\ GameMode \in {"NORMAL", "DEBUG", "COMPETITION"}
    /\ Garbage \subseteq Int
    /\ MaxClicks \in Nat

ASSUME TimeAssumption ==
    /\ Timeout \in Nat
    /\ CheckInterval \in Nat
    /\ StartupTime \in Nat
    /\ ShutdownTime \in Nat
    /\ MaxTimestep \in Nat \ {0}

VARIABLES
    state,                   \* state_t of the arena
    server,                  \* "up"; "quit" after Quit(); "fatal" after Error(true, ..)
    auto_start_and_end,      \* of the_arena_controller
    sequence_nr,
    game_nr,
    current_arena_nr,
    walls,                   \* arenas whose walls are in object_lists
    robots_left,
    all_robots_in_sequence,
    on_arena,                \* object_lists[ROBOT]
    alive,                   \* robots with alive = true
    dead_but_stats_not_set,  \* robots with that flag
    statistics,              \* per robot, the list of its stat_t
    pause_after_next_game,
    halt_next,
    total_time,
    next_check_time,
    clicks                   \* button presses so far

progress   == <<sequence_nr, game_nr>>
robotLists == <<all_robots_in_sequence, on_arena, alive, dead_but_stats_not_set>>
buttons    == <<pause_after_next_game, halt_next, auto_start_and_end>>
time       == <<total_time, next_check_time>>
arena      == <<current_arena_nr, walls>>

vars == <<state, server, auto_start_and_end, sequence_nr, game_nr,
          current_arena_nr, walls, robots_left, all_robots_in_sequence,
          on_arena, alive, dead_but_stats_not_set, statistics,
          pause_after_next_game, halt_next, total_time, next_check_time, clicks>>

States == {"NOT_STARTED", "STARTING_ROBOTS", "BEFORE_GAME_START",
           "GAME_IN_PROGRESS", "PAUSED", "PAUSING_BETWEEN_GAMES",
           "SHUTTING_DOWN_ROBOTS", "FINISHED"}

\* The line-ups start_sequence can be given (module Matchmaking computes them).
Lineups == {s \in SUBSET Robots : Cardinality(s) = RobotsPerGame}

Stat == [seq : Nat, game : Nat, position : Int, points2 : Int, timeout : BOOLEAN]

-----------------------------------------------------------------------------
(***************************************************************************)
(* Scoring: Robot::set_stats and the two loops that call it.               *)
(***************************************************************************)

\* Mutation of StatOf: the survivors of a timeout share points like the dead.
StatOfSharedTimeout(seq, game, left, killed, timeout) ==
    [seq |-> seq, game |-> game, position |-> left + 1,
     points2 |-> 2 * (RobotsPerGame - left) - (killed - 1), timeout |-> timeout]

\* The stat_t of a robot scored when `left' robots remain; `timeout' is kept
\* as a field because it changes how the points are shared.
StatOf(seq, game, left, killed, timeout) ==
    [seq      |-> seq,
     game     |-> game,
     position |-> left + 1,
     points2  |-> 2 * (RobotsPerGame - left)
                    - (IF timeout THEN 2 ELSE 1) * (killed - 1),
     timeout  |-> timeout]

\* The statistics once the robots in `who' have been scored.
SetStats(stats, who, stat) ==
    [r \in Robots |-> IF r \in who THEN Append(stats[r], stat) ELSE stats[r]]

-----------------------------------------------------------------------------
(***************************************************************************)
(* start_game and end_game call each other, and are called with the lists  *)
(* as update or a failed start left them.  A record l carries what a       *)
(* caller hands on: the robot lists, walls, robots_left, the clock and the *)
(* statistics.                                                             *)
(***************************************************************************)
Current(now) ==
    [on |-> on_arena, alive |-> alive, unset |-> dead_but_stats_not_set,
     walls |-> walls, left |-> robots_left, now |-> now, stats |-> statistics]

Become(l) ==
    /\ on_arena' = l.on
    /\ alive' = l.alive
    /\ dead_but_stats_not_set' = l.unset
    /\ walls' = l.walls
    /\ robots_left' = l.left
    /\ total_time' = l.now
    /\ statistics' = l.stats

\* Mutation of NextArena: the arena number does not wrap around.
NextArenaNoWrap == current_arena_nr + 1

\* The arenas are used in turn.
NextArena == (current_arena_nr % NumberOfArenas) + 1

\* Mutation of Placed: robots_left is not reset to 0 before the placement.
PlacedOnTop(l, placed) ==
    [l EXCEPT !.on = @ \cup placed, !.alive = @ \cup placed, !.unset = @ \ placed,
              !.walls = @ \cup {NextArena}, !.left = @ + Cardinality(placed)]

\* start_game has placed and revived the robots in `placed'.
Placed(l, placed) ==
    [l EXCEPT !.on = @ \cup placed,
              !.alive = @ \cup placed,
              !.unset = @ \ placed,
              !.walls = @ \cup {NextArena},
              !.left = Cardinality(placed)]

\* `pause_after_next_game' holds the tournament before the next game.
PostponeGame(l) ==
    /\ pause_after_next_game
    /\ state' = "PAUSING_BETWEEN_GAMES"
    /\ Become(l)
    /\ UNCHANGED <<game_nr, current_arena_nr, next_check_time>>

\* parse_arena_file returns false: the walls read so far stay in the lists.
RejectArena(l) ==
    /\ ~ pause_after_next_game
    /\ NextArena \in BadArenas
    /\ current_arena_nr' = NextArena
    /\ Become([l EXCEPT !.walls = @ \cup {NextArena}])
    /\ UNCHANGED <<state, game_nr, next_check_time>>

\* A robot finds no place: those before it in the list are already alive.
FailPlacement(l) ==
    /\ PlacementMayFail
    /\ ~ pause_after_next_game
    /\ NextArena \notin BadArenas
    /\ current_arena_nr' = NextArena
    /\ state' = "BEFORE_GAME_START"
    /\ \E placed \in SUBSET all_robots_in_sequence :
          /\ placed # all_robots_in_sequence
          /\ Become(Placed(l, placed))
    /\ UNCHANGED <<game_nr, next_check_time>>

\* Mutation of BeginGame: pause_after_next_game is not looked at.
BeginGameRegardless(l) ==
    /\ NextArena \notin BadArenas
    /\ current_arena_nr' = NextArena
    /\ state' = "GAME_IN_PROGRESS"
    /\ Become([Placed(l, all_robots_in_sequence) EXCEPT !.now = 0])
    /\ game_nr' = game_nr + 1
    /\ next_check_time' = CheckInterval

BeginGame(l) ==
    /\ ~ pause_after_next_game
    /\ NextArena \notin BadArenas
    /\ current_arena_nr' = NextArena
    /\ state' = "GAME_IN_PROGRESS"
    /\ Become([Placed(l, all_robots_in_sequence) EXCEPT !.now = 0])
    /\ game_nr' = game_nr + 1
    /\ next_check_time' = CheckInterval

StartGame(l) ==
    \/ PostponeGame(l)
    \/ RejectArena(l)
    \/ FailPlacement(l)
    \/ BeginGame(l)

-----------------------------------------------------------------------------
(***************************************************************************)
(* end_game, end_sequence, start_sequence.                                 *)
(***************************************************************************)

\* Mutation of Finish: only the dead are scored, not the robots still alive.
FinishForgetsSurvivors(l, seq, game) ==
    [l EXCEPT !.on = {}, !.alive = @ \ all_robots_in_sequence,
              !.unset = @ \ all_robots_in_sequence, !.walls = {}, !.left = 0,
              !.stats = SetStats(@, all_robots_in_sequence \cap l.unset,
                                 StatOf(seq, game, 0, l.left, TRUE))]

\* Mutation of Finish: delete_lists is not called.
FinishKeepsLists(l, seq, game) ==
    [l EXCEPT !.alive = @ \ all_robots_in_sequence,
              !.unset = @ \ all_robots_in_sequence, !.left = 0,
              !.stats = SetStats(@, all_robots_in_sequence \cap (l.alive \cup l.unset),
                                 StatOf(seq, game, 0, l.left, TRUE))]

\* end_game up to delete_lists: every robot not yet scored dies and is scored
\* for the game seq, game as surviving a timeout.
Finish(l, seq, game) ==
    [on    |-> {},
     alive |-> l.alive \ all_robots_in_sequence,
     unset |-> l.unset \ all_robots_in_sequence,
     walls |-> {},
     left  |-> 0,
     now   |-> l.now,
     stats |-> SetStats(l.stats, all_robots_in_sequence \cap (l.alive \cup l.unset),
                        StatOf(seq, game, 0, l.left, TRUE))]

\* end_sequence: the robots are told to exit; they are reaped ShutdownTime later.
EndSequence(l) ==
    /\ state' = "SHUTTING_DOWN_ROBOTS"
    /\ Become(l)
    /\ next_check_time' = l.now + ShutdownTime
    /\ UNCHANGED current_arena_nr

\* end_game.  Its result is ignored by every caller.
EndGame(l) ==
    LET finished == Finish(l, sequence_nr, game_nr)
    IN  /\ \/ /\ game_nr = GamesPerSequence
              /\ EndSequence(finished)
              /\ UNCHANGED game_nr
           \/ /\ game_nr # GamesPerSequence
              /\ StartGame(finished)
        /\ UNCHANGED <<sequence_nr, all_robots_in_sequence>>

\* The robots of the sequence are appended to the list of the last one.
StartSequence(members, nr) ==
    /\ game_nr' = 0
    /\ current_arena_nr' = 0
    /\ \E s \in Lineups : all_robots_in_sequence' = members \cup s
    /\ state' = "STARTING_ROBOTS"
    /\ sequence_nr' = nr + 1
    /\ total_time' = 0
    /\ next_check_time' = StartupTime

-----------------------------------------------------------------------------
(***************************************************************************)
(* The tick, one action per case of timeout_function.  `now' is the clock  *)
(* after update_timer.  The clock also runs in NOT_STARTED, FINISHED and   *)
(* PAUSING_BETWEEN_GAMES, where nothing reads it before it is reset; it is *)
(* left alone there.                                                       *)
(***************************************************************************)
Clock == {total_time + dt : dt \in 1 .. MaxTimestep}

\* start_tournament: clear() empties the lists, then the first sequence starts.
StartTournament ==
    /\ StartSequence({}, 0)
    /\ on_arena' = {}
    /\ alive' = {}
    /\ dead_but_stats_not_set' = {}
    /\ walls' = {}
    /\ statistics' = [r \in Robots |-> <<>>]

\* A tournament file was given on the command line.
TickNotStarted ==
    /\ state = "NOT_STARTED"
    /\ auto_start_and_end
    /\ StartTournament
    /\ UNCHANGED <<server, robots_left, buttons, clicks>>

\* The statistics are saved and the program quits.
TickFinished ==
    /\ state = "FINISHED"
    /\ auto_start_and_end
    /\ server' = "quit"
    /\ UNCHANGED <<state, progress, arena, robots_left, robotLists, statistics,
                   buttons, time, clicks>>

\* Waiting for the robots to start.
TickStarting ==
    /\ state = "STARTING_ROBOTS"
    /\ \E now \in Clock :
          /\ now <= next_check_time
          /\ total_time' = now
    /\ UNCHANGED <<state, server, progress, arena, robots_left, robotLists,
                   statistics, buttons, next_check_time, clicks>>

\* start_sequence_follow_up, and the game it starts.
TickFollowUp ==
    /\ state = "STARTING_ROBOTS"
    /\ \E now \in Clock :
          /\ now > next_check_time
          /\ PostponeGame(Current(now)) \/ BeginGame(Current(now))
    /\ UNCHANGED <<server, sequence_nr, all_robots_in_sequence, buttons, clicks>>

\* start_sequence_follow_up fails: the tournament is wound up through end_game,
\* the counters set to their last values first.
WindUp(l) ==
    /\ current_arena_nr' = NextArena
    /\ sequence_nr' = SequencesInTournament
    /\ game_nr' = GamesPerSequence
    /\ state' = "SHUTTING_DOWN_ROBOTS"
    /\ Become(Finish(l, SequencesInTournament, GamesPerSequence))
    /\ next_check_time' = l.now + ShutdownTime

TickFollowUpFails ==
    /\ state = "STARTING_ROBOTS"
    /\ ~ pause_after_next_game
    /\ \E now \in Clock :
          /\ now > next_check_time
          /\ \/ /\ NextArena \in BadArenas
                /\ WindUp(Current(now))
             \/ /\ NextArena \notin BadArenas
                /\ PlacementMayFail
                /\ \E placed \in SUBSET all_robots_in_sequence :
                      /\ placed # all_robots_in_sequence
                      /\ WindUp(Placed(Current(now), placed))
    /\ UNCHANGED <<server, all_robots_in_sequence, buttons, clicks>>

\* Mutation of Update: only the robots that died in this tick are taken off the
\* arena, counted and scored.
UpdateMissesStopped(dying, now) ==
    LET killed == Cardinality(dying)
        left   == robots_left - killed
    IN  [on |-> on_arena \ dying, alive |-> alive \ dying,
         unset |-> dead_but_stats_not_set, walls |-> walls, left |-> left, now |-> now,
         stats |-> SetStats(statistics, dying,
                            StatOf(sequence_nr, game_nr, left, killed, FALSE))]

\* Mutation of Update: set_stats does not clear dead_but_stats_not_set.
UpdateKeepsFlag(dying, now) ==
    LET killed == Cardinality(on_arena \ (alive \ dying))
        left   == robots_left - killed
        dead   == all_robots_in_sequence \cap (dead_but_stats_not_set \cup dying)
    IN  [on |-> on_arena \cap (alive \ dying), alive |-> alive \ dying,
         unset |-> dead_but_stats_not_set \cup dying, walls |-> walls,
         left |-> left, now |-> now,
         stats |-> SetStats(statistics, IF killed > 0 THEN dead ELSE {},
                            StatOf(sequence_nr, game_nr, left, killed, FALSE))]

\* update: the robots of `dying' die; update_robots takes every dead robot off
\* the arena and, if any was taken, scores the robots whose statistics are not
\* set.
Update(dying, now) ==
    LET killed == Cardinality(on_arena \ (alive \ dying))
        left   == robots_left - killed
        dead   == all_robots_in_sequence \cap (dead_but_stats_not_set \cup dying)
        scored == IF killed > 0 THEN dead ELSE {}
    IN  [on    |-> on_arena \cap (alive \ dying),
         alive |-> alive \ dying,
         unset |-> (dead_but_stats_not_set \cup dying) \ scored,
         walls |-> walls,
         left  |-> left,
         now   |-> now,
         stats |-> SetStats(statistics, scored,
                            StatOf(sequence_nr, game_nr, left, killed, FALSE))]

GameOver(l) == l.left <= 1 \/ l.now > Timeout

\* check_robots, competition mode: the robots in `stopped' used up their CPU
\* time; they die after the scoring of this tick.
CheckRobots(l, stopped) ==
    [l EXCEPT !.alive = @ \ stopped, !.unset = @ \cup stopped]

CheckDue(l) == GameMode = "COMPETITION" /\ l.now > next_check_time

\* The game goes on after this tick.
TickGame ==
    /\ state = "GAME_IN_PROGRESS"
    /\ \E now \in Clock, dying \in SUBSET (alive \cap on_arena) :
         LET l == Update(dying, now)
         IN  /\ ~ GameOver(l)
             /\ \/ /\ CheckDue(l)
                   /\ \E stopped \in SUBSET (l.alive \cap all_robots_in_sequence) :
                         Become(CheckRobots(l, stopped))
                   /\ next_check_time' = now + CheckInterval
                \/ /\ ~ CheckDue(l)
                   /\ Become(l)
                   /\ UNCHANGED next_check_time
    /\ state' = IF halt_next THEN "PAUSED" ELSE state
    /\ halt_next' = FALSE
    /\ UNCHANGED <<server, auto_start_and_end, progress, current_arena_nr,
                   all_robots_in_sequence, pause_after_next_game, clicks>>

\* At most one robot is left or the time is up: update, then end_game.
TickGameOver ==
    /\ state = "GAME_IN_PROGRESS"
    /\ \E now \in Clock, dying \in SUBSET (alive \cap on_arena) :
         /\ GameOver(Update(dying, now))
         /\ EndGame(Update(dying, now))
    /\ UNCHANGED <<server, buttons, clicks>>

\* Mutation of TickPausing: the condition is the wrong way round.
TickPausingNegated ==
    /\ state = "PAUSING_BETWEEN_GAMES"
    /\ pause_after_next_game
    /\ StartGame(Current(total_time))
    /\ UNCHANGED <<server, sequence_nr, all_robots_in_sequence, buttons, clicks>>

\* The pause between games is over.
TickPausing ==
    /\ state = "PAUSING_BETWEEN_GAMES"
    /\ ~ pause_after_next_game
    /\ StartGame(Current(total_time))
    /\ UNCHANGED <<server, sequence_nr, all_robots_in_sequence, buttons, clicks>>

\* Waiting for the robots to exit.
TickShuttingDown ==
    /\ state = "SHUTTING_DOWN_ROBOTS"
    /\ \E now \in Clock :
          /\ now <= next_check_time
          /\ total_time' = now
    /\ UNCHANGED <<state, server, progress, arena, robots_left, robotLists,
                   statistics, buttons, next_check_time, clicks>>

\* end_sequence_follow_up: the next sequence, or end_tournament.
TickSequenceOver ==
    /\ state = "SHUTTING_DOWN_ROBOTS"
    /\ \E now \in Clock : now > next_check_time
    /\ \/ /\ sequence_nr = SequencesInTournament
          /\ state' = "FINISHED"
          /\ all_robots_in_sequence' = {}
          /\ UNCHANGED <<progress, current_arena_nr, time>>
       \/ /\ sequence_nr # SequencesInTournament
          /\ StartSequence({}, sequence_nr)
    /\ UNCHANGED <<server, walls, robots_left, on_arena, alive,
                   dead_but_stats_not_set, statistics, buttons, clicks>>

\* "Arena shouldn't be in this state here!!" is fatal.
TickImpossible ==
    /\ state = "BEFORE_GAME_START"
    /\ server' = "fatal"
    /\ UNCHANGED <<state, progress, arena, robots_left, robotLists, statistics,
                   buttons, time, clicks>>

Tick ==
    /\ server = "up"
    /\ \/ TickNotStarted
       \/ TickFinished
       \/ TickStarting
       \/ TickFollowUp
       \/ TickFollowUpFails
       \/ TickGame
       \/ TickGameOver
       \/ TickPausing
       \/ TickShuttingDown
       \/ TickSequenceOver
       \/ TickImpossible

-----------------------------------------------------------------------------
(***************************************************************************)
(* Button callbacks, between two ticks.                                    *)
(***************************************************************************)
Click ==
    /\ server = "up"
    /\ clicks < MaxClicks
    /\ clicks' = clicks + 1
    /\ UNCHANGED server

\* StartTournamentWindow::start: a new arena, ArenaBase() and ArenaRealTime(),
\* replaces the finished one.  The constructors leave robots_left as it is.
ClickNewTournament ==
    /\ Click
    /\ state \in {"NOT_STARTED", "FINISHED"}
    /\ StartTournament
    /\ robots_left' \in Garbage
    /\ pause_after_next_game' = FALSE
    /\ halt_next' = FALSE
    /\ UNCHANGED auto_start_and_end

\* is_started: without a tournament file there is no arena to begin with.
Started == auto_start_and_end \/ state # "NOT_STARTED"

\* pause_game_toggle
ClickPause ==
    /\ Click
    /\ Started
    /\ IF GameMode # "COMPETITION"
       THEN /\ state' = CASE state = "GAME_IN_PROGRESS" -> "PAUSED"
                          [] state = "PAUSED"           -> "GAME_IN_PROGRESS"
                          [] OTHER                      -> state
            /\ halt_next' = FALSE
            /\ UNCHANGED pause_after_next_game
       ELSE /\ pause_after_next_game' = ~ pause_after_next_game
            /\ UNCHANGED <<state, halt_next>>
    /\ UNCHANGED <<auto_start_and_end, progress, arena, robots_left, robotLists,
                   statistics, time>>

\* step_paused_game
ClickStep ==
    /\ Click
    /\ GameMode = "DEBUG"
    /\ state = "PAUSED"
    /\ halt_next' = TRUE
    /\ state' = "GAME_IN_PROGRESS"
    /\ UNCHANGED <<auto_start_and_end, progress, arena, robots_left, robotLists,
                   statistics, pause_after_next_game, time>>

\* The End Game button, shown in debug mode.
ClickEndGame ==
    /\ Click
    /\ GameMode = "DEBUG"
    /\ state \notin {"NOT_STARTED", "FINISHED"}
    /\ EndGame(Current(total_time))
    /\ UNCHANGED buttons

\* The Kill Marked Robot button, shown in debug mode: die() of a robot of the
\* score window.
ClickKillRobot ==
    /\ Click
    /\ GameMode = "DEBUG"
    /\ state \in {"GAME_IN_PROGRESS", "PAUSED"}
    /\ \E r \in all_robots_in_sequence \cap alive :
          /\ alive' = alive \ {r}
          /\ dead_but_stats_not_set' = dead_but_stats_not_set \cup {r}
    /\ UNCHANGED <<state, progress, arena, robots_left, all_robots_in_sequence,
                   on_arena, statistics, buttons, time>>

\* interrupt_tournament: the robot processes are killed, the lists cleared; the
\* flags of the robots and their statistics stay.
ClickEndTournament ==
    /\ Click
    /\ state \in {"GAME_IN_PROGRESS", "PAUSED", "PAUSING_BETWEEN_GAMES"}
    /\ auto_start_and_end' = FALSE
    /\ walls' = {}
    /\ on_arena' = {}
    /\ all_robots_in_sequence' = {}
    /\ state' = "FINISHED"
    /\ UNCHANGED <<progress, current_arena_nr, robots_left, alive,
                   dead_but_stats_not_set, statistics, pause_after_next_game,
                   halt_next, time>>

Button ==
    \/ ClickNewTournament
    \/ ClickPause
    \/ ClickStep
    \/ ClickEndGame
    \/ ClickKillRobot
    \/ ClickEndTournament

-----------------------------------------------------------------------------
Init ==
    /\ state = "NOT_STARTED"
    /\ server = "up"
    /\ auto_start_and_end \in BOOLEAN
    /\ sequence_nr = 0
    /\ game_nr = 0
    /\ current_arena_nr = 0
    /\ walls = {}
    /\ robots_left \in Garbage
    /\ all_robots_in_sequence = {}
    /\ on_arena = {}
    /\ alive = {}
    /\ dead_but_stats_not_set = {}
    /\ statistics = [r \in Robots |-> <<>>]
    /\ pause_after_next_game = FALSE
    /\ halt_next = FALSE
    /\ total_time = 0
    /\ next_check_time = 0
    /\ clicks = 0

Next == Tick \/ Button

Spec == Init /\ [][Next]_vars

\* GTK calls update_function again and again; nothing makes a user press a button.
FairSpec == Spec /\ WF_vars(Tick)

-----------------------------------------------------------------------------
(***************************************************************************)
(* Properties.                                                             *)
(***************************************************************************)

\* The type of every variable.
TypeOK ==
    /\ state \in States
    /\ server \in {"up", "quit", "fatal"}
    /\ auto_start_and_end \in BOOLEAN
    /\ sequence_nr \in 0 .. SequencesInTournament
    /\ game_nr \in 0 .. GamesPerSequence
    /\ current_arena_nr \in 0 .. NumberOfArenas
    /\ walls \subseteq 1 .. NumberOfArenas
    /\ robots_left \in Int
    /\ all_robots_in_sequence \subseteq Robots
    /\ on_arena \subseteq Robots
    /\ alive \subseteq Robots
    /\ dead_but_stats_not_set \subseteq Robots
    /\ statistics \in [Robots -> Seq(Stat)]
    /\ pause_after_next_game \in BOOLEAN
    /\ halt_next \in BOOLEAN
    /\ total_time \in Nat
    /\ next_check_time \in Nat
    /\ clicks \in 0 .. MaxClicks

\* The states in which robots are on the arena.
Playing == state \in {"GAME_IN_PROGRESS", "PAUSED", "BEFORE_GAME_START"}

\* The robot list of the arena, the flags of the robots and robots_left, kept
\* by different functions, tell the same story between two ticks: robots_left
\* counts the robots on the arena, and they are those that live and those that
\* a button or check_robots killed after the last scoring (update_robots,
\* end_game, start_game, check_robots, kill_robot).
RobotsAccounted ==
    /\ state # "FINISHED" =>
          /\ on_arena = alive \cup dead_but_stats_not_set
          /\ alive \cap dead_but_stats_not_set = {}
    /\ on_arena \subseteq all_robots_in_sequence
    /\ Playing => robots_left = Cardinality(on_arena)
    /\ ~ Playing => on_arena = {}

\* <<s, g>> comes before <<t, h>> in the schedule.
Before(s, g, t, h) == s < t \/ (s = t /\ g < h)

\* The results in list are in the order of the schedule, no game twice.
InOrder(list) ==
    \A i, j \in 1 .. Len(list) :
       i < j => Before(list[i].seq, list[i].game, list[j].seq, list[j].game)

\* All results in list are for games before game g of sequence s.
AllBefore(list, s, g) ==
    \A i \in 1 .. Len(list) : Before(list[i].seq, list[i].game, s, g)

\* No result in list is for a game after game g of sequence s.
NoneAfter(list, s, g) ==
    \A i \in 1 .. Len(list) : ~ Before(s, g, list[i].seq, list[i].game)

\* Every robot has at most one result per game, its results are in the order in
\* which the games were played, and a robot still on the arena has none for the
\* current game (set_stats is called from update_robots and from end_game).
ResultsInOrder ==
    \A r \in Robots :
       /\ InOrder(statistics[r])
       /\ NoneAfter(statistics[r], sequence_nr, game_nr)
       /\ r \in on_arena /\ state # "BEFORE_GAME_START" =>
             AllBefore(statistics[r], sequence_nr, game_nr)

\* The robots with a result for game g of sequence s.
Scored(s, g) ==
    {r \in Robots : \E i \in 1 .. Len(statistics[r]) :
                       statistics[r][i].seq = s /\ statistics[r][i].game = g}

\* Is game g of sequence s over?
Past(s, g) ==
    \/ Before(s, g, sequence_nr, game_nr)
    \/ /\ s = sequence_nr
       /\ g = game_nr
       /\ ~ Playing
       /\ state # "FINISHED"

ResultOf(r, s, g) ==
    statistics[r][CHOOSE i \in 1 .. Len(statistics[r]) :
                     statistics[r][i].seq = s /\ statistics[r][i].game = g]

\* The scoring rule of the manual, computed from the finishing order alone: one
\* point for taking part, one for every robot outlived, half a point for every
\* other robot that died at the same time, nothing for those that a timeout
\* stopped together (set_stats computes it from counters instead).
FairPoints ==
    \A s \in 1 .. SequencesInTournament, g \in 1 .. GamesPerSequence :
       Past(s, g) =>
         LET result    == [r \in Scored(s, g) |-> ResultOf(r, s, g)]
             outlived(r)  == {q \in Scored(s, g) : result[q].position > result[r].position}
             tiedWith(r) == {q \in Scored(s, g) \ {r} :
                              result[q].position = result[r].position}
         IN  \A r \in Scored(s, g) :
               result[r].points2 =
                 2 + 2 * Cardinality(outlived(r))
                   + (IF result[r].timeout THEN 0 ELSE Cardinality(tiedWith(r)))

\* A game is played on the walls of its own arena and no other
\* (parse_arena_file adds them, delete_lists removes them).
OwnWalls == Playing /\ on_arena # {} => walls = {current_arena_nr}

\* The result that the last step gave to robot r, if it gave one.
NewResult(r) == Len(statistics'[r]) > Len(statistics[r])

\* A robot killed by a button or stopped by check_robots, after the scoring of
\* its tick, gets its result in the very next tick of the game, whether or not
\* that tick kills anybody else (update_robots).
DeadScoredNextTick ==
    [][server = "up" /\ (TickGame \/ TickGameOver) =>
         \A r \in dead_but_stats_not_set : NewResult(r)]_vars

\* Nothing more happens unless a button is pressed.
Resting ==
    \/ server # "up"
    \/ state \in {"NOT_STARTED", "FINISHED"} /\ ~ auto_start_and_end
    \/ state = "PAUSED"
    \/ state = "PAUSING_BETWEEN_GAMES" /\ pause_after_next_game

\* A tournament left alone runs to its end, whatever the robots do
\* (timeout_function in every state).
TournamentEnds == <>[]Resting

\* Are there games of the tournament still to be started?
GamesAhead == game_nr < GamesPerSequence \/ sequence_nr < SequencesInTournament

\* The Pause button in competition mode takes effect: if a game is still to come
\* the tournament waits before it, across the end of a sequence too, unless the
\* pause is taken back, or the tournament or the program is ended before
\* (pause_game_toggle, start_game, start_sequence_follow_up).
PauseTakesEffect ==
    [](GameMode = "COMPETITION" /\ pause_after_next_game /\ GamesAhead =>
         <>(\/ state = "PAUSING_BETWEEN_GAMES"
            \/ state = "FINISHED" /\ GamesAhead
            \/ ~ pause_after_next_game
            \/ server # "up"))

\* The tournament as module Tournament describes it.
T == INSTANCE Tournament WITH
        seq <- sequence_nr, game <- game_nr, team <- all_robots_in_sequence,
        playing <- on_arena, record <- statistics

\* The engine implements the abstract tournament, as long as every robot finds a
\* place on the arena: what it computes with counters and flags, over several
\* functions and ticks, is what the robots on the arena alone determine
\* (start_sequence, start_game, update_robots, end_game, interrupt_tournament).
ImplementsTournament == T!Spec
=============================================================================
