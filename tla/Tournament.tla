----------------------------- MODULE Tournament -----------------------------
(***************************************************************************)
(* What a tournament is, seen from the results: sequences of games, played *)
(* one after the other by the same team of robots in a sequence.  A robot  *)
(* that leaves a game gets its result then and there, and only then: its   *)
(* place is given by the number of robots still in the game, and robots    *)
(* that leave together share a place and the points.  There are no states, *)
(* clocks, flags or counters of robots here.  Module Arena implements this *)
(* one.                                                                    *)
(***************************************************************************)
EXTENDS Integers, Sequences, FiniteSets

CONSTANTS Robots, RobotsPerGame, GamesPerSequence, SequencesInTournament

VARIABLES
    seq,        \* the number of the sequence, 0 if none was started
    game,       \* the number of the game in the sequence
    team,       \* the robots of the sequence
    playing,    \* those of them that are in the game now
    record      \* the results of every robot, in order

vars == <<seq, game, team, playing, record>>

Lineups == {s \in SUBSET Robots : Cardinality(s) = RobotsPerGame}

\* The result of each of the robots of group when n robots stay in the game.
\* Points count twice: two for taking part and for each robot outlived, one
\* for each robot in the same place, unless the game was stopped.
Result(group, n, stopped) ==
    [seq |-> seq, game |-> game, position |-> n + 1,
     points2 |-> 2 * (RobotsPerGame - n)
                   - (IF stopped THEN 2 ELSE 1) * (Cardinality(group) - 1),
     timeout |-> stopped]

With(rec, group, result) ==
    [r \in Robots |-> IF r \in group THEN Append(rec[r], result) ELSE rec[r]]

\* The results when group has left the game.
Left(group) ==
    With(record, group, Result(group, Cardinality(playing \ group), FALSE))

Init ==
    /\ seq = 0 /\ game = 0
    /\ team = {} /\ playing = {}
    /\ record = [r \in Robots |-> <<>>]

\* A group of robots leaves the game, and the others play on.
Leave ==
    \E group \in SUBSET playing :
       /\ playing' = playing \ group
       /\ record' = Left(group)
       /\ UNCHANGED <<seq, game, team>>

\* The game ends: a last group leaves, then all the others, who survived
\* together.  The whole team begins the next game at once, or it waits.
Over ==
    \E group \in SUBSET playing :
       /\ record' = With(Left(group), playing \ group, Result(playing \ group, 0, TRUE))
       /\ \/ playing' = {} /\ game' = game
          \/ playing' = team /\ game < GamesPerSequence /\ game' = game + 1
       /\ UNCHANGED <<seq, team>>

\* The next sequence, after the last game of this one.
NextSequence ==
    /\ playing = {} /\ game = GamesPerSequence /\ seq < SequencesInTournament
    /\ seq' = seq + 1 /\ game' = 0
    /\ team' \in Lineups
    /\ UNCHANGED <<playing, record>>

\* A sequence whose first game can't be played: nothing more is played.
Cancel ==
    /\ playing = {} /\ game = 0
    /\ seq' = SequencesInTournament /\ game' = GamesPerSequence
    /\ UNCHANGED <<team, playing, record>>

\* The tournament is over, or interrupted: nobody who was still in a game gets
\* a result for it.
Disband ==
    /\ team' = {} /\ playing' = {}
    /\ UNCHANGED <<seq, game, record>>

\* Another tournament.
New ==
    /\ seq' = 1 /\ game' = 0
    /\ team' \in Lineups /\ playing' = {}
    /\ record' = [r \in Robots |-> <<>>]

Next == Leave \/ Over \/ NextSequence \/ Cancel \/ Disband \/ New

Spec == Init /\ [][Next]_vars
=============================================================================
