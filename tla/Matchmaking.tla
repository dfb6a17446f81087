---------------------------- MODULE Matchmaking ----------------------------
(***************************************************************************)
(* ArenaRealTime::start_tournament, the part that fills robots_in_sequence: *)
(* which robots meet in which sequence.  As many complete rounds as fit    *)
(* come first, each with every combination of robots_per_game robots; the  *)
(* remaining sequences are drawn at random among the robots that have      *)
(* played least.  Robots are numbered from 1, arrays from 1 (0 in the      *)
(* code).                                                                  *)
(***************************************************************************)
EXTENDS Integers, Sequences, FiniteSets, Various

CONSTANTS
    NumberOfRobots,     \* number_of_robots
    RobotsPerGame,      \* robots_per_game
    NumberOfSequences   \* n_o_sequences

ASSUME MatchmakingAssumption ==
    /\ NumberOfRobots \in Nat
    /\ RobotsPerGame \in 2 .. NumberOfRobots
    /\ NumberOfSequences \in Nat \ {0}

VARIABLES
    phase,               \* "rounds", "shuffle", "drawing" or "done"
    round_nr,
    current_sequence,    \* the last combination of the round
    robots_in_sequence,  \* the matches so far, each a tuple of robot numbers
    game,                \* combinations of this round, or matches drawn, so far
    match,               \* the robots drawn for the current match
    robot_matches_played,
    min_matches_played,
    number_of_robots_on_min_matches

vars == <<phase, round_nr, current_sequence, robots_in_sequence, game, match,
          robot_matches_played, min_matches_played, number_of_robots_on_min_matches>>

drawn == <<match, robot_matches_played, min_matches_played,
           number_of_robots_on_min_matches>>

RobotNumbers == 1 .. NumberOfRobots

games_per_round == binomial(NumberOfRobots, RobotsPerGame)
complete_rounds == NumberOfSequences \div games_per_round
rem_games       == NumberOfSequences % games_per_round

-----------------------------------------------------------------------------
(***************************************************************************)
(* The complete rounds.                                                    *)
(***************************************************************************)

\* The first combination with its last robot decreased, "to be increased first
\* time".
FirstCombination ==
    [i \in 1 .. RobotsPerGame |-> IF i = RobotsPerGame THEN i - 1 ELSE i]

\* The positions whose robot can still be increased.
Increasable(c) ==
    {i \in 1 .. RobotsPerGame : c[i] # NumberOfRobots - RobotsPerGame + i}

\* The lexicographic successor: the last increasable robot is increased and the
\* robots after it follow on.
NextCombination(c) ==
    LET k == CHOOSE i \in Increasable(c) : \A j \in Increasable(c) : j <= i
    IN  [i \in 1 .. RobotsPerGame |-> IF i < k THEN c[i] ELSE c[k] + 1 + (i - k)]

\* One iteration of the loop over the games of a round.
AddCombination ==
    /\ phase = "rounds"
    /\ game < games_per_round
    /\ Increasable(current_sequence) # {}
    /\ current_sequence' = NextCombination(current_sequence)
    /\ robots_in_sequence' = Append(robots_in_sequence, current_sequence')
    /\ game' = game + 1
    /\ phase' = IF game' = games_per_round THEN "shuffle" ELSE "rounds"
    /\ UNCHANGED <<round_nr, drawn>>

\* Mutation of SwapMatches: the swap forgets one of the two matches.
SwapMatchesLosesOne(n1, n2) ==
    /\ phase = "shuffle"
    /\ robots_in_sequence' = [robots_in_sequence EXCEPT ![n1] = robots_in_sequence[n2]]
    /\ UNCHANGED <<phase, round_nr, current_sequence, game, drawn>>

\* One iteration of reorder_pointer_array.  It makes 5 * size random swaps, more
\* than enough for any order; here it makes any number of them.
SwapMatches(n1, n2) ==
    /\ phase = "shuffle"
    /\ robots_in_sequence' = [robots_in_sequence EXCEPT ![n1] = robots_in_sequence[n2],
                                                       ![n2] = robots_in_sequence[n1]]
    /\ UNCHANGED <<phase, round_nr, current_sequence, game, drawn>>

\* The round is over.
EndRound ==
    /\ phase = "shuffle"
    /\ round_nr' = round_nr + 1
    /\ phase' = IF round_nr' < complete_rounds THEN "rounds"
                ELSE IF rem_games > 0 THEN "drawing" ELSE "done"
    /\ current_sequence' = FirstCombination
    /\ game' = 0
    /\ UNCHANGED <<robots_in_sequence, drawn>>

-----------------------------------------------------------------------------
(***************************************************************************)
(* The remaining matches.                                                  *)
(***************************************************************************)
Playing == {match[i] : i \in 1 .. Len(match)}

\* Mutation of Accepted: the number of matches played does not count.
AcceptedAnybody(nr) == nr \notin Playing

\* The condition on which the do loop stops.
Accepted(nr) ==
    /\ nr \notin Playing
    /\ robot_matches_played[nr] = min_matches_played

\* Mutation of NewMinimum: the counter is tested before it is decremented.
NewMinimumLate == number_of_robots_on_min_matches = 0

\* The drawn robot was the last one on the minimum.
NewMinimum == number_of_robots_on_min_matches = 1

\* A robot has been drawn for the current match; the match may be complete.
Seat(nr) ==
    IF Len(match) + 1 < RobotsPerGame
    THEN /\ match' = Append(match, nr)
         /\ UNCHANGED <<robots_in_sequence, game, phase>>
    ELSE /\ robots_in_sequence' = Append(robots_in_sequence, Append(match, nr))
         /\ match' = <<>>
         /\ game' = game + 1
         /\ phase' = IF game' < rem_games THEN "drawing" ELSE "done"

\* One robot: the do loop until it stops, and what follows it.  If rand()
\* returns RAND_MAX, one value in 2^31, the code reads one element beyond its
\* arrays; that draw is left out.
DrawRobot(nr) ==
    /\ phase = "drawing"
    /\ Accepted(nr)
    /\ robot_matches_played' = [robot_matches_played EXCEPT ![nr] = @ + 1]
    /\ IF NewMinimum
       THEN /\ min_matches_played' = min_matches_played + 1
            /\ number_of_robots_on_min_matches' = NumberOfRobots
       ELSE /\ number_of_robots_on_min_matches' = number_of_robots_on_min_matches - 1
            /\ UNCHANGED min_matches_played
    /\ Seat(nr)
    /\ UNCHANGED <<round_nr, current_sequence>>

-----------------------------------------------------------------------------
Init ==
    /\ phase = IF complete_rounds > 0 THEN "rounds" ELSE "drawing"
    /\ round_nr = 0
    /\ current_sequence = FirstCombination
    /\ robots_in_sequence = <<>>
    /\ game = 0
    /\ match = <<>>
    /\ robot_matches_played = [r \in RobotNumbers |-> 0]
    /\ min_matches_played = 0
    /\ number_of_robots_on_min_matches = NumberOfRobots

Next ==
    \/ AddCombination
    \/ \E n1, n2 \in 1 .. games_per_round : n1 < n2 /\ SwapMatches(n1, n2)
    \/ EndRound
    \/ \E nr \in RobotNumbers : DrawRobot(nr)
    \/ phase = "done" /\ UNCHANGED vars

Spec == Init /\ [][Next]_vars

-----------------------------------------------------------------------------
(***************************************************************************)
(* Properties.                                                             *)
(***************************************************************************)

\* The robots of match m.
Members(m) == {robots_in_sequence[m][i] : i \in 1 .. Len(robots_in_sequence[m])}

Combinations == {s \in SUBSET RobotNumbers : Cardinality(s) = RobotsPerGame}

\* Every complete round has every combination of robots exactly once, in spite
\* of the reordering, which always works on the first matches of the list.
RoundsComplete ==
    \A round \in 1 .. round_nr, s \in Combinations :
       Cardinality({m \in (round - 1) * games_per_round + 1 .. round * games_per_round :
                      Members(m) = s}) = 1

\* The do loop that draws a robot can stop: somebody on the minimum is not yet
\* in the match.
SomebodyCanPlay ==
    phase = "drawing" => \E nr \in RobotNumbers : Accepted(nr)

\* No robot is ever drawn for two matches more than another, and the two
\* counters the draw goes by say what they should.
Balanced ==
    /\ \A r, q \in RobotNumbers : robot_matches_played[r] <= robot_matches_played[q] + 1
    /\ number_of_robots_on_min_matches
          = Cardinality({r \in RobotNumbers : robot_matches_played[r] = min_matches_played})
=============================================================================
