----------------------------- MODULE BattleLog -----------------------------
(***************************************************************************)
(* The log of a tournament, as the real-time arena writes it: the lines    *)
(* that print_to_logfile sends to the log file in start_game, update,      *)
(* get_messages, move, set_stats, end_game, add_cookie and add_mine.       *)
(*                                                                         *)
(* Objects are pairs of a kind and a number: "R" robots, "S" shots and "C" *)
(* for what lies about in the arena, cookies and mines alike.  Positions,  *)
(* energies and angles are left out, and so are the lines that change no   *)
(* list when they are read back; the one header line stands for those.     *)
(* The n-th update of a game happens at time n.                            *)
(***************************************************************************)
EXTENDS Naturals, Sequences, FiniteSets, SequencesExt

CONSTANTS
    NumberOfRobots,         \* robots_per_game; every robot plays every game
    GamesPerSequence,
    SequencesInTournament,
    Timeout,                \* OPTION_TIMEOUT
    LogEvery,               \* OPTION_LOG_EVERY_NTH_UPDATE_INTERVAL
    ShortestGame,           \* bound: updates that every game has at least
    MaxObjects,             \* bound: shots, cookies and mines of each kind in a game
    MaxEvents               \* bound: births and deaths before a game's last update ends

ASSUME LogAssumption ==
    /\ NumberOfRobots \in Nat \ {0, 1}
    /\ {GamesPerSequence, SequencesInTournament, LogEvery} \subseteq Nat \ {0}
    /\ Timeout \in Nat /\ ShortestGame \in 1 .. Timeout
    /\ {MaxObjects, MaxEvents} \subseteq Nat

VARIABLES
    log,        \* the lines written so far
    closed,     \* the tournament is over, the file is complete
    writer      \* what the arena knows while it writes

logVars == <<log, closed, writer>>

-----------------------------------------------------------------------------
Robots == {<<"R", i>> : i \in 1 .. NumberOfRobots}

Objects == {<<k, i>> : k \in {"S", "C"}, i \in 1 .. MaxObjects}

Header        == [c |-> "H"]
GameLine(s, g) == [c |-> "G", seq |-> s, game |-> g]
TimeLine(t)   == [c |-> "T", t |-> t]
Line(ch, o)   == [c |-> ch, o |-> o]

\* One line ch for every object of the set.
Lines(ch, set) == [i \in 1 .. Cardinality(set) |-> Line(ch, SetToSeq(set)[i])]

\* Robots are interchangeable, so those that die first have the lowest numbers.
FirstOf(set, n) == {r \in set : Cardinality({q \in set : q[2] < r[2]}) < n}

Idle == [seq |-> 0, game |-> 0, time |-> 0, alive |-> {}, objects |-> {},
         counts |-> [S |-> 0, C |-> 0], events |-> 0, nth |-> 0]

\* start_game: the game's line, time 0 and the first positions of all robots.
\* Shots, cookies and mines are numbered from 1 again.
GameStarted(w, s, g) ==
    [w EXCEPT !.seq = s, !.game = g, !.time = 0, !.alive = Robots, !.objects = {},
              !.counts = [S |-> 0, C |-> 0], !.nth = 0]

StartLines(s, g) == <<GameLine(s, g), TimeLine(0)>> \o Lines("R", Robots)

StartTournament ==
    /\ log = <<>>
    /\ log' = <<Header>> \o StartLines(1, 1)
    /\ writer' = GameStarted(Idle, 1, 1)
    /\ UNCHANGED closed

\* The game after the one that w is in; <<>> if there is none.
NextGame(w) ==
    CASE w.game < GamesPerSequence -> <<w.seq, w.game + 1>>
      [] w.game = GamesPerSequence /\ w.seq < SequencesInTournament -> <<w.seq + 1, 1>>
      [] OTHER -> <<>>

\* The shots that are fired in this update, and the cookie or mine placed after it.
Fired(w, n)  == {<<"S", w.counts.S + i>> : i \in 1 .. n}
Placed(w, n) == {<<"C", w.counts.C + i>> : i \in 1 .. n}

\* update, and what follows it in timeout_function.  The robots in `early' die
\* before they have moved and those in `late' afterwards; the objects in `gone'
\* disappear, be it in the update that made them.
Update ==
    /\ log # <<>> /\ ~ closed
    /\ \E nEarly, nLate \in 0 .. 2, nFired, nPlaced \in 0 .. 1 :
       LET w      == writer
           time   == w.time + 1
           early  == FirstOf(w.alive, nEarly)
           late   == FirstOf(w.alive \ early, nLate)
           left   == w.alive \ (early \cup late)
           fired  == Fired(w, nFired)
           over   == Cardinality(left) <= 1 \/ time > Timeout
           placed == IF over THEN {} ELSE Placed(w, nPlaced)
           next   == NextGame(w)
       IN  /\ nEarly + nLate <= 2
           /\ over => time >= ShortestGame /\ nPlaced = 0
           /\ fired \cup placed \subseteq Objects
           /\ \E gone \in SUBSET (w.objects \cup fired) :
              LET events == w.events + nEarly + nLate + nFired + nPlaced + Cardinality(gone)
              IN
              /\ events <= MaxEvents
              /\ LET lines == <<TimeLine(time)>>
                               \o Lines("S", fired) \o Lines("D", gone)
                               \o (IF w.nth = 0 THEN Lines("R", w.alive \ early) ELSE <<>>)
                               \o Lines("D", early \cup late)
                               \o (IF over THEN Lines("D", left) ELSE Lines("C", placed))
                    after == [w EXCEPT
                                !.time = time,
                                !.alive = left,
                                !.objects = ((@ \cup fired) \ gone) \cup placed,
                                !.counts = [S |-> @.S + nFired, C |-> @.C + nPlaced],
                                !.events = events,
                                !.nth = (@ + 1) % LogEvery]
                IN  \/ /\ ~ over
                       /\ log' = log \o lines
                       /\ writer' = after
                       /\ UNCHANGED closed
                    \/ /\ over /\ next # <<>>
                       /\ log' = log \o lines \o StartLines(next[1], next[2])
                       /\ writer' = GameStarted(after, next[1], next[2])
                       /\ UNCHANGED closed
                    \/ /\ over /\ next = <<>>
                       /\ log' = log \o lines
                       /\ writer' = Idle
                       /\ closed' = TRUE

\* The tournament is interrupted, or the program ends, in the middle of a game.
Interrupted ==
    /\ log # <<>> /\ ~ closed /\ writer.time >= ShortestGame
    /\ closed' = TRUE
    /\ writer' = Idle
    /\ UNCHANGED log

LogInit ==
    /\ log = <<>>
    /\ closed = FALSE
    /\ writer = Idle

LogNext == StartTournament \/ Update \/ Interrupted
=============================================================================
