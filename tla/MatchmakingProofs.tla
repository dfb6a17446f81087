------------------------- MODULE MatchmakingProofs -------------------------
(***************************************************************************)
(* The random draw of the remaining matches is fair and cannot hang, for   *)
(* any number of robots, robots per game and sequences.                    *)
(***************************************************************************)
EXTENDS Matchmaking, FiniteSetTheorems, TLAPS

\* The robots that have played least.
OnMinimum == {r \in RobotNumbers : robot_matches_played[r] = min_matches_played}

DrawTypeOK ==
    /\ match \in Seq(RobotNumbers)
    /\ Len(match) < RobotsPerGame
    /\ robot_matches_played \in [RobotNumbers -> Nat]
    /\ min_matches_played \in Nat
    /\ number_of_robots_on_min_matches \in 1 .. NumberOfRobots

\* All robots have played the minimum or one match more.
TwoLevels ==
    \A r \in RobotNumbers :
       \/ robot_matches_played[r] = min_matches_played
       \/ robot_matches_played[r] = min_matches_played + 1

\* The current match has no robot twice.
SeatsTaken == Cardinality(Playing) = Len(match)

\* Either the minimum has not gone up since the match was begun, and then those
\* in it have left the minimum; or it has, and then all others are on it.
MinimumOpen ==
    \/ OnMinimum \cap Playing = {}
    \/ OnMinimum \cup Playing = RobotNumbers

DrawInv ==
    /\ DrawTypeOK
    /\ TwoLevels
    /\ number_of_robots_on_min_matches = Cardinality(OnMinimum)
    /\ SeatsTaken
    /\ MinimumOpen

-----------------------------------------------------------------------------
\* There are finitely many robots.
LEMMA RobotNumbersFinite ==
    /\ IsFiniteSet(RobotNumbers)
    /\ Cardinality(RobotNumbers) = NumberOfRobots
    /\ \A S \in SUBSET RobotNumbers : IsFiniteSet(S) /\ Cardinality(S) \in Nat
<1>1. IsFiniteSet(RobotNumbers) /\ Cardinality(RobotNumbers) = NumberOfRobots
  <2>1. 1 \in Int /\ NumberOfRobots \in Int /\ NumberOfRobots >= 1
    BY MatchmakingAssumption
  <2> QED
    BY <2>1, FS_Interval DEF RobotNumbers
<1> QED
  BY <1>1, FS_Subset, FS_CardinalityType

\* No robot is in an empty match.
LEMMA EmptyMatch ==
    ASSUME match' = <<>>
    PROVE  Playing' = {}
BY DEF Playing

\* One more robot in the match.
LEMMA LongerMatch ==
    ASSUME NEW nr \in RobotNumbers, match \in Seq(RobotNumbers),
           match' = Append(match, nr)
    PROVE  Playing' = Playing \cup {nr}
<1>1. /\ Len(match') = Len(match) + 1 /\ Len(match) \in Nat
      /\ match'[Len(match) + 1] = nr
      /\ \A i \in 1 .. Len(match) : match'[i] = match[i]
  OBVIOUS
<1>2. 1 .. Len(match') = 1 .. Len(match) \cup {Len(match) + 1}
  BY <1>1
<1> QED
  BY <1>1, <1>2 DEF Playing

\* The invariant of the draw holds in the beginning ...
LEMMA DrawInvInit == Init => DrawInv
<1> SUFFICES ASSUME Init PROVE DrawInv
  OBVIOUS
<1>1. OnMinimum = RobotNumbers
  BY DEF Init, OnMinimum
<1>2. Playing = {} /\ Len(match) = 0
  BY DEF Init, Playing
<1>3. Cardinality(Playing) = 0
  BY <1>2, FS_EmptySet
<1> QED
  BY <1>1, <1>2, <1>3, RobotNumbersFinite, MatchmakingAssumption
  DEF Init, DrawInv, DrawTypeOK, TwoLevels, SeatsTaken, MinimumOpen

\* A robot is drawn.
LEMMA DrawRobotStep ==
    ASSUME DrawInv, NEW nr \in RobotNumbers, DrawRobot(nr)
    PROVE  DrawInv'
<1>1. /\ nr \in OnMinimum /\ nr \notin Playing
      /\ robot_matches_played' = [robot_matches_played EXCEPT ![nr] = @ + 1]
  BY DEF DrawRobot, Accepted, OnMinimum
<1>2. \/ match' = Append(match, nr) /\ Len(match) + 1 < RobotsPerGame
      \/ match' = <<>>
  BY DEF DrawRobot, Seat
<1>3. Playing \subseteq RobotNumbers /\ OnMinimum \subseteq RobotNumbers
  BY DEF DrawInv, DrawTypeOK, Playing, OnMinimum
<1>4. /\ match' \in Seq(RobotNumbers) /\ Len(match') < RobotsPerGame
      /\ robot_matches_played' \in [RobotNumbers -> Nat]
  <2>1. match \in Seq(RobotNumbers) /\ robot_matches_played \in [RobotNumbers -> Nat]
    BY DEF DrawInv, DrawTypeOK
  <2>2. RobotsPerGame \in Nat /\ 0 < RobotsPerGame
    BY MatchmakingAssumption
  <2>3. match' \in Seq(RobotNumbers) /\ Len(match') < RobotsPerGame
    <3>1. CASE match' = <<>>
      BY <2>2, <3>1
    <3>2. CASE match' = Append(match, nr) /\ Len(match) + 1 < RobotsPerGame
      BY <2>1, <2>2, <3>2
    <3> QED
      BY <1>2, <3>1, <3>2
  <2>4. robot_matches_played[nr] + 1 \in Nat
    BY <2>1
  <2>5. robot_matches_played' \in [RobotNumbers -> Nat]
    BY <1>1, <2>1, <2>4
  <2> QED
    BY <2>3, <2>5
<1>5. SeatsTaken' /\ (Playing' = {} \/ Playing' = Playing \cup {nr})
  <2>1. CASE match' = <<>>
    <3>1. Playing' = {} /\ Len(match') = 0
      BY <2>1, EmptyMatch
    <3>2. Cardinality(Playing') = 0
      BY <3>1, FS_EmptySet
    <3> QED
      BY <3>1, <3>2 DEF SeatsTaken
  <2>2. CASE match' = Append(match, nr)
    <3>1. Playing' = Playing \cup {nr}
      BY <2>2, LongerMatch DEF DrawInv, DrawTypeOK
    <3>2. IsFiniteSet(Playing)
      BY <1>3, RobotNumbersFinite
    <3>3. Cardinality(Playing \cup {nr}) = Cardinality(Playing) + 1
      BY <1>1, <3>2, FS_AddElement
    <3>4. Len(match') = Len(match) + 1
      BY <2>2 DEF DrawInv, DrawTypeOK
    <3> QED
      BY <3>1, <3>3, <3>4 DEF DrawInv, SeatsTaken
  <2> QED
    BY <1>2, <2>1, <2>2
<1>6. CASE NewMinimum
  <2>1. /\ min_matches_played' = min_matches_played + 1
        /\ number_of_robots_on_min_matches' = NumberOfRobots
    BY <1>6 DEF DrawRobot
  <2>2. OnMinimum = {nr}
    <3>1. Cardinality(OnMinimum) = 1 /\ IsFiniteSet(OnMinimum)
      BY <1>3, <1>6, RobotNumbersFinite DEF DrawInv, NewMinimum
    <3>2. Cardinality(OnMinimum \ {nr}) = 0 /\ IsFiniteSet(OnMinimum \ {nr})
      BY <1>1, <3>1, FS_RemoveElement
    <3>3. OnMinimum \ {nr} = {}
      BY <3>2, FS_EmptySet
    <3> QED
      BY <1>1, <3>3
  <2>3. \A r \in RobotNumbers : robot_matches_played'[r] = min_matches_played'
    <3> SUFFICES ASSUME NEW r \in RobotNumbers
                 PROVE  robot_matches_played'[r] = min_matches_played'
      OBVIOUS
    <3>1. CASE r = nr
      BY <1>1, <2>1, <3>1 DEF OnMinimum, DrawInv, DrawTypeOK
    <3>2. CASE r # nr
      <4>1. r \notin OnMinimum
        BY <2>2, <3>2
      <4> QED
        BY <1>1, <2>1, <3>2, <4>1 DEF OnMinimum, DrawInv, DrawTypeOK, TwoLevels
    <3> QED
      BY <3>1, <3>2
  <2>4. OnMinimum' = RobotNumbers
    BY <2>3 DEF OnMinimum
  <2>5. Playing' \subseteq RobotNumbers
    BY <1>3, <1>5
  <2> QED
    BY <1>4, <1>5, <2>1, <2>3, <2>4, <2>5, RobotNumbersFinite, MatchmakingAssumption
    DEF DrawInv, DrawTypeOK, TwoLevels, MinimumOpen
<1>7. CASE ~ NewMinimum
  <2>1. /\ min_matches_played' = min_matches_played
        /\ number_of_robots_on_min_matches' = number_of_robots_on_min_matches - 1
    BY <1>7 DEF DrawRobot
  <2>2. OnMinimum' = OnMinimum \ {nr}
    BY <1>1, <2>1 DEF OnMinimum, DrawInv, DrawTypeOK
  <2>3. Cardinality(OnMinimum \ {nr}) = Cardinality(OnMinimum) - 1
    <3>1. IsFiniteSet(OnMinimum)
      BY <1>3, RobotNumbersFinite
    <3> QED
      BY <1>1, <3>1, FS_RemoveElement
  <2>4. number_of_robots_on_min_matches' \in 1 .. NumberOfRobots
    BY <1>7, <2>1, MatchmakingAssumption DEF NewMinimum, DrawInv, DrawTypeOK
  <2>5. TwoLevels'
    BY <1>1, <2>1 DEF OnMinimum, DrawInv, DrawTypeOK, TwoLevels
  <2>6. MinimumOpen'
    BY <1>1, <1>5, <2>2 DEF DrawInv, MinimumOpen
  <2> QED
    BY <1>4, <1>5, <2>1, <2>2, <2>3, <2>4, <2>5, <2>6 DEF DrawInv, DrawTypeOK
<1> QED
  BY <1>6, <1>7

\* ... and every draw keeps it.
LEMMA DrawInvStep == DrawInv /\ [Next]_vars => DrawInv'
<1> SUFFICES ASSUME DrawInv, [Next]_vars PROVE DrawInv'
  OBVIOUS
<1>1. CASE \E nr \in RobotNumbers : DrawRobot(nr)
  BY <1>1, DrawRobotStep
<1>2. CASE UNCHANGED drawn
  BY <1>2 DEF drawn, DrawInv, DrawTypeOK, TwoLevels, SeatsTaken, MinimumOpen,
              OnMinimum, Playing
<1> QED
  BY <1>1, <1>2 DEF Next, AddCombination, SwapMatches, EndRound, vars, drawn

\* So it always holds.
THEOREM DrawInvariant == Spec => []DrawInv
BY DrawInvInit, DrawInvStep, PTL DEF Spec

\* No robot is drawn for two matches more than another, however the random
\* numbers fall.
THEOREM DrawIsBalanced == Spec => []Balanced
<1>1. DrawInv => Balanced
  BY DEF DrawInv, DrawTypeOK, TwoLevels, Balanced, OnMinimum
<1> QED
  BY <1>1, DrawInvariant, PTL

\* The do loop of the draw always has a robot on which it can stop.
THEOREM DrawCanStop == Spec => []SomebodyCanPlay
<1>1. DrawInv => SomebodyCanPlay
  <2> SUFFICES ASSUME DrawInv PROVE \E nr \in RobotNumbers : Accepted(nr)
    BY DEF SomebodyCanPlay
  <2>1. Playing \subseteq RobotNumbers /\ OnMinimum \subseteq RobotNumbers
    BY DEF DrawInv, DrawTypeOK, Playing, OnMinimum
  <2>2. \A nr \in RobotNumbers : nr \in OnMinimum /\ nr \notin Playing => Accepted(nr)
    BY DEF Accepted, OnMinimum
  <2>3. OnMinimum # {}
    <3>1. Cardinality(OnMinimum) # 0
      BY DEF DrawInv, DrawTypeOK
    <3> QED
      BY <3>1, FS_EmptySet
  <2>4. Playing # RobotNumbers
    BY RobotNumbersFinite, MatchmakingAssumption DEF DrawInv, DrawTypeOK, SeatsTaken
  <2> QED
    BY <2>1, <2>2, <2>3, <2>4 DEF DrawInv, MinimumOpen
<1> QED
  BY <1>1, DrawInvariant, PTL
=============================================================================
