---------------------------- MODULE ArenaProofs ----------------------------
(***************************************************************************)
(* Proofs about the tournament engine, for any number of robots, games,    *)
(* sequences and arenas, in every game mode.                               *)
(***************************************************************************)
EXTENDS Arena, FiniteSetTheorems, TLAPS

\* What start_game and end_game are handed (see Current and Become).
Lists == [on : SUBSET Robots, alive : SUBSET Robots, unset : SUBSET Robots,
          walls : SUBSET (1 .. NumberOfArenas), left : Int, now : Nat,
          stats : [Robots -> Seq(Stat)]]

\* The lists agree with one another.
Agree(l) ==
    /\ l \in Lists
    /\ l.on = l.alive \cup l.unset
    /\ l.alive \cap l.unset = {}
    /\ l.on \subseteq all_robots_in_sequence

\* No robot is on the arena and none waits for its result.
Empty(l) ==
    /\ l \in Lists
    /\ l.on = {}
    /\ l.alive = {}
    /\ l.unset = {}

\* The game counter in the states where the next game is about to start.
GamesRemain ==
    /\ state = "STARTING_ROBOTS" => game_nr = 0
    /\ state = "PAUSING_BETWEEN_GAMES" => game_nr < GamesPerSequence

\* The inductive invariant behind type correctness and the accounting.
ArenaInv == TypeOK /\ GamesRemain /\ RobotsAccounted

-----------------------------------------------------------------------------
(***************************************************************************)
(* The operators.                                                          *)
(***************************************************************************)

\* A result computed by set_stats is well formed.
LEMMA StatOfType ==
    ASSUME NEW seq \in Nat, NEW game \in Nat, NEW left \in Int,
           NEW killed \in Int, NEW timeout \in BOOLEAN
    PROVE  StatOf(seq, game, left, killed, timeout) \in Stat
BY SizeAssumption DEF StatOf, Stat

\* Scoring keeps the results of every robot a list of results.
LEMMA SetStatsType ==
    ASSUME NEW stats \in [Robots -> Seq(Stat)], NEW who, NEW stat \in Stat
    PROVE  SetStats(stats, who, stat) \in [Robots -> Seq(Stat)]
BY DEF SetStats

\* The number of the next arena is the number of an arena.
LEMMA NextArenaType ==
    ASSUME current_arena_nr \in 0 .. NumberOfArenas
    PROVE  NextArena \in 1 .. NumberOfArenas
BY SizeAssumption DEF NextArena

\* Sets of robots are finite and have a cardinality.
LEMMA RobotSetsFinite ==
    ASSUME NEW S \in SUBSET Robots
    PROVE  IsFiniteSet(S) /\ Cardinality(S) \in Nat
BY SizeAssumption, FS_Subset, FS_CardinalityType

\* What is handed to start_game and end_game by a button or a tick.
LEMMA CurrentAgrees ==
    ASSUME TypeOK, RobotsAccounted, state # "FINISHED", NEW now \in Nat
    PROVE  Agree(Current(now))
BY DEF TypeOK, RobotsAccounted, Agree, Current, Lists

\* end_game leaves no robot on the arena, alive or unscored.
LEMMA FinishEmpties ==
    ASSUME NEW l, Agree(l), NEW seq \in Nat, NEW game \in Nat
    PROVE  /\ Empty(Finish(l, seq, game))
           /\ Finish(l, seq, game).left = 0
           /\ Finish(l, seq, game).now = l.now
<1> DEFINE who == all_robots_in_sequence \cap (l.alive \cup l.unset)
<1>1. l \in Lists
  BY DEF Agree
<1>2. StatOf(seq, game, 0, l.left, TRUE) \in Stat
  <2>1. 0 \in Int /\ l.left \in Int /\ TRUE \in BOOLEAN
    BY <1>1 DEF Lists
  <2> QED
    BY <2>1, StatOfType, Zenon
<1>3. SetStats(l.stats, who, StatOf(seq, game, 0, l.left, TRUE)) \in [Robots -> Seq(Stat)]
  <2>1. l.stats \in [Robots -> Seq(Stat)]
    BY <1>1 DEF Lists
  <2> HIDE DEF who
  <2> QED
    BY <2>1, <1>2, SetStatsType
<1>4. l.alive \ all_robots_in_sequence = {} /\ l.unset \ all_robots_in_sequence = {}
  BY DEF Agree
<1> QED
  <2> DEFINE stats == SetStats(l.stats, who, StatOf(seq, game, 0, l.left, TRUE))
  <2>1. Finish(l, seq, game) = [on |-> {}, alive |-> {}, unset |-> {}, walls |-> {},
                                left |-> 0, now |-> l.now, stats |-> stats]
    BY <1>4 DEF Finish
  <2>2. stats \in [Robots -> Seq(Stat)] /\ l.now \in Nat
    BY <1>1, <1>3 DEF Lists
  <2> HIDE DEF stats
  <2> QED
    BY <2>1, <2>2 DEF Empty, Lists

\* The lists after some robots have been placed on an empty arena.
LEMMA PlacedAgrees ==
    ASSUME TypeOK, NEW l, Empty(l), NEW placed \in SUBSET all_robots_in_sequence
    PROVE  /\ Agree(Placed(l, placed))
           /\ Placed(l, placed).on = placed
           /\ Placed(l, placed).left = Cardinality(placed)
           /\ Placed(l, placed).now = l.now
<1>1. NextArena \in 1 .. NumberOfArenas
  BY NextArenaType DEF TypeOK
<1>2. placed \subseteq Robots /\ Cardinality(placed) \in Int
  BY RobotSetsFinite DEF TypeOK
<1> QED
  BY <1>1, <1>2 DEF Placed, Empty, Agree, Lists

\* update_robots keeps the count: robots_left is again the number of robots on
\* the arena, and no dead robot waits for its result.
LEMMA UpdateAgrees ==
    ASSUME TypeOK, RobotsAccounted, state = "GAME_IN_PROGRESS", NEW now \in Nat,
           NEW dying \in SUBSET (alive \cap on_arena)
    PROVE  /\ Agree(Update(dying, now))
           /\ Update(dying, now).left = Cardinality(Update(dying, now).on)
           /\ Update(dying, now).unset = {}
           /\ Update(dying, now).now = now
<1> DEFINE gone   == on_arena \ (alive \ dying)
           killed == Cardinality(gone)
           left   == robots_left - killed
           dead   == all_robots_in_sequence \cap (dead_but_stats_not_set \cup dying)
           scored == IF killed > 0 THEN dead ELSE {}
           stay   == on_arena \cap (alive \ dying)
           unset  == (dead_but_stats_not_set \cup dying) \ scored
           stats  == SetStats(statistics, scored,
                              StatOf(sequence_nr, game_nr, left, killed, FALSE))
<1>1. /\ on_arena = alive \cup dead_but_stats_not_set
      /\ alive \cap dead_but_stats_not_set = {}
      /\ on_arena \subseteq all_robots_in_sequence
      /\ robots_left = Cardinality(on_arena)
  BY DEF RobotsAccounted, Playing
<1>2. IsFiniteSet(on_arena) /\ killed \in Nat /\ Cardinality(on_arena) \in Nat
  <2>1. on_arena \in SUBSET Robots /\ gone \in SUBSET Robots
    BY DEF TypeOK
  <2> QED
    BY <2>1, RobotSetsFinite
<1>3. Cardinality(stay) = Cardinality(on_arena) - killed
  <2>1. on_arena \cap gone = gone
    OBVIOUS
  <2>2. stay = on_arena \ gone
    OBVIOUS
  <2>3. Cardinality(on_arena \ gone)
           = Cardinality(on_arena) - Cardinality(on_arena \cap gone)
    BY <1>2, FS_Difference
  <2> QED
    BY <2>1, <2>2, <2>3
<1>4. unset = {}
  <2>1. CASE killed > 0
    <3>1. dead_but_stats_not_set \cup dying \subseteq all_robots_in_sequence
      BY <1>1
    <3>2. scored = dead
      BY <2>1
    <3> QED
      BY <3>1, <3>2
  <2>2. CASE ~ (killed > 0)
    <3>1. IsFiniteSet(gone)
      BY RobotSetsFinite DEF TypeOK
    <3>2. gone = {}
      BY <2>2, <3>1, <1>2, FS_EmptySet
    <3> QED
      BY <3>2, <1>1
  <2> QED
    BY <2>1, <2>2
<1>5. stats \in [Robots -> Seq(Stat)]
  <2>1. left \in Int /\ sequence_nr \in Nat /\ game_nr \in Nat
    BY <1>2 DEF TypeOK
  <2>2. StatOf(sequence_nr, game_nr, left, killed, FALSE) \in Stat
    <3>1. killed \in Int /\ FALSE \in BOOLEAN
      BY <1>2
    <3> HIDE DEF left, killed
    <3> QED
      BY <2>1, <3>1, StatOfType, Zenon
  <2> QED
    BY <2>2, SetStatsType DEF TypeOK
<1>6. Update(dying, now) = [on |-> stay, alive |-> alive \ dying, unset |-> unset,
                            walls |-> walls, left |-> left, now |-> now, stats |-> stats]
  BY DEF Update
<1>7. left \in Int /\ stay \subseteq Robots /\ alive \ dying \subseteq Robots
  BY <1>2 DEF TypeOK
<1>8. stay = alive \ dying
  BY <1>1
<1> HIDE DEF gone, killed, left, dead, scored, stay, unset, stats
<1>9. Update(dying, now) \in Lists
  BY <1>4, <1>5, <1>6, <1>7 DEF Lists, TypeOK
<1>10. left = Cardinality(stay)
  BY <1>1, <1>3 DEF left
<1>11. stay \subseteq all_robots_in_sequence
  BY <1>1 DEF stay
<1> QED
  BY <1>4, <1>6, <1>8, <1>9, <1>10, <1>11 DEF Agree

\* The counter of the lists is the number of robots on the arena, if any.
Counted(l) == l.on = {} \/ l.left = Cardinality(l.on)

\* Scoring nobody changes nothing.
LEMMA NobodyScored ==
    ASSUME NEW stats \in [Robots -> Seq(Stat)], NEW stat
    PROVE  SetStats(stats, {}, stat) = stats
BY DEF SetStats

\* The lists after group has left the game at once: each of them is scored by the
\* number of robots left and the size of the group.
Leaves(group, l) ==
    /\ l.on = on_arena \ group
    /\ l.left = Cardinality(on_arena \ group)
    /\ l.stats = SetStats(statistics, group,
                          StatOf(sequence_nr, game_nr, Cardinality(on_arena \ group),
                                 Cardinality(group), FALSE))

\* update: those who died since the last tick or in this one leave together.
LEMMA UpdateScores ==
    ASSUME TypeOK, RobotsAccounted, state = "GAME_IN_PROGRESS", NEW now \in Nat,
           NEW dying \in SUBSET (alive \cap on_arena)
    PROVE  \E group \in SUBSET on_arena :
              /\ dead_but_stats_not_set \subseteq group
              /\ Leaves(group, Update(dying, now))
<1> DEFINE gone   == on_arena \ (alive \ dying)
           killed == Cardinality(gone)
           left   == robots_left - killed
           dead   == all_robots_in_sequence \cap (dead_but_stats_not_set \cup dying)
           scored == IF killed > 0 THEN dead ELSE {}
<1>1. /\ on_arena = alive \cup dead_but_stats_not_set
      /\ alive \cap dead_but_stats_not_set = {}
      /\ on_arena \subseteq all_robots_in_sequence
      /\ robots_left = Cardinality(on_arena)
  BY DEF RobotsAccounted, Playing
<1>2. /\ Update(dying, now).on = on_arena \cap (alive \ dying)
      /\ Update(dying, now).left = left
      /\ Update(dying, now).stats
           = SetStats(statistics, scored, StatOf(sequence_nr, game_nr, left, killed, FALSE))
  BY DEF Update
<1>3. /\ IsFiniteSet(on_arena) /\ IsFiniteSet(gone)
      /\ killed \in Nat /\ Cardinality(on_arena) \in Nat
  <2>1. on_arena \in SUBSET Robots /\ gone \in SUBSET Robots
    BY DEF TypeOK
  <2> QED
    BY <2>1, RobotSetsFinite
<1>4. scored = gone
  <2>1. CASE killed > 0
    BY <1>1, <2>1
  <2>2. CASE ~ (killed > 0)
    <3>1. gone = {}
      BY <2>2, <1>3, FS_EmptySet
    <3> QED
      BY <2>2, <3>1
  <2> QED
    BY <2>1, <2>2
<1>5. Cardinality(on_arena \ gone) = left
  <2>1. on_arena \cap gone = gone
    OBVIOUS
  <2>2. Cardinality(on_arena \ gone)
           = Cardinality(on_arena) - Cardinality(on_arena \cap gone)
    BY <1>3, FS_Difference
  <2> QED
    BY <1>1, <2>1, <2>2
<1>6. on_arena \cap (alive \ dying) = on_arena \ gone
  OBVIOUS
<1>7. left \in Int /\ gone \in SUBSET on_arena
  BY <1>1, <1>3
<1>8. dead_but_stats_not_set \subseteq gone
  BY <1>1
<1> HIDE DEF gone, left, scored
<1>9. Leaves(gone, Update(dying, now))
  BY <1>2, <1>4, <1>5, <1>6 DEF Leaves, killed
<1> QED
  BY <1>7, <1>8, <1>9

\* end_game scores the robots still on the arena together, as survivors.
LEMMA FinishScoresAll ==
    ASSUME NEW l, Agree(l), Counted(l), NEW s, NEW g
    PROVE  Finish(l, s, g).stats
             = SetStats(l.stats, l.on, StatOf(s, g, 0, Cardinality(l.on), TRUE))
<1>1. all_robots_in_sequence \cap (l.alive \cup l.unset) = l.on
  BY DEF Agree
<1>2. Finish(l, s, g).stats = SetStats(l.stats, l.on, StatOf(s, g, 0, l.left, TRUE))
  BY <1>1 DEF Finish
<1>3. CASE l.on = {}
  <2>1. l.stats \in [Robots -> Seq(Stat)]
    BY DEF Agree, Lists
  <2>2. \A stat : SetStats(l.stats, {}, stat) = l.stats
    BY <2>1, NobodyScored
  <2> QED
    BY <1>2, <1>3, <2>2, Zenon
<1>4. CASE l.left = Cardinality(l.on)
  BY <1>2, <1>4
<1> QED
  BY <1>3, <1>4 DEF Counted

\* start_game with nobody on the arena: nothing changes, or all begin a game.
LEMMA StartGamePlays ==
    ASSUME NEW l, Empty(l), StartGame(l)
    PROVE  /\ statistics' = l.stats
           /\ \/ on_arena' = {} /\ game_nr' = game_nr
              \/ on_arena' = all_robots_in_sequence /\ game_nr' = game_nr + 1
              \/ PlacementMayFail
<1>1. l \in Lists /\ l.on = {}
  BY DEF Empty
<1>2. CASE PostponeGame(l)
  BY <1>1, <1>2 DEF PostponeGame, Become
<1>3. CASE RejectArena(l)
  <2>1. /\ [l EXCEPT !.walls = @ \cup {NextArena}].on = l.on
        /\ [l EXCEPT !.walls = @ \cup {NextArena}].stats = l.stats
    BY <1>1 DEF Lists
  <2> QED
    BY <1>1, <1>3, <2>1 DEF RejectArena, Become
<1>4. CASE BeginGame(l)
  <2> DEFINE p == Placed(l, all_robots_in_sequence)
  <2>1. p.on = all_robots_in_sequence /\ p.stats = l.stats
    BY <1>1 DEF Placed, Lists
  <2>2. [p EXCEPT !.now = 0].on = p.on /\ [p EXCEPT !.now = 0].stats = p.stats
    BY <1>1 DEF Placed, Lists
  <2>3. Become([p EXCEPT !.now = 0]) /\ game_nr' = game_nr + 1
    BY <1>4 DEF BeginGame
  <2> HIDE DEF p
  <2> QED
    BY <2>1, <2>2, <2>3 DEF Become
<1>5. CASE FailPlacement(l)
  <2>1. PICK placed : Become(Placed(l, placed))
    BY <1>5 DEF FailPlacement
  <2>2. Placed(l, placed).stats = l.stats
    BY <1>1 DEF Placed, Lists
  <2> QED
    BY <1>5, <2>1, <2>2 DEF FailPlacement, Become
<1> QED
  BY <1>2, <1>3, <1>4, <1>5 DEF StartGame

-----------------------------------------------------------------------------
(***************************************************************************)
(* The steps that several actions share.                                   *)
(***************************************************************************)

\* The part of TypeOK that start_game and end_game can disturb.
CoreTypeOK ==
    /\ state \in States
    /\ game_nr \in 0 .. GamesPerSequence
    /\ current_arena_nr \in 0 .. NumberOfArenas
    /\ walls \subseteq 1 .. NumberOfArenas
    /\ robots_left \in Int
    /\ on_arena \subseteq Robots
    /\ alive \subseteq Robots
    /\ dead_but_stats_not_set \subseteq Robots
    /\ statistics \in [Robots -> Seq(Stat)]
    /\ total_time \in Nat
    /\ next_check_time \in Nat

CoreInv == CoreTypeOK /\ GamesRemain /\ RobotsAccounted

\* Taking over lists that agree keeps the types.
LEMMA BecomeType ==
    ASSUME NEW l, Agree(l), Become(l)
    PROVE  /\ walls' \subseteq 1 .. NumberOfArenas
           /\ robots_left' \in Int
           /\ on_arena' \subseteq Robots
           /\ alive' \subseteq Robots
           /\ dead_but_stats_not_set' \subseteq Robots
           /\ statistics' \in [Robots -> Seq(Stat)]
           /\ total_time' \in Nat
           /\ on_arena' = alive' \cup dead_but_stats_not_set'
           /\ alive' \cap dead_but_stats_not_set' = {}
           /\ on_arena' \subseteq all_robots_in_sequence
BY DEF Agree, Become, Lists

\* Without robots there is nothing to count.
LEMMA EmptyAgrees ==
    ASSUME NEW l, Empty(l)
    PROVE  Agree(l) /\ Cardinality(l.on) = 0
BY FS_EmptySet DEF Empty, Agree

\* start_game, called with nobody on the arena and a game still to play.
LEMMA StartGameStep ==
    ASSUME TypeOK, GamesRemain, NEW l, Empty(l), StartGame(l),
           game_nr < GamesPerSequence, Playing => l.left = 0,
           all_robots_in_sequence' = all_robots_in_sequence
    PROVE  CoreInv'
<1>1. Agree(l) /\ l.on = {} /\ l.now \in Nat /\ Cardinality(l.on) = 0
  BY EmptyAgrees DEF Empty, Lists
<1>2. NextArena \in 1 .. NumberOfArenas /\ NextArena \in 0 .. NumberOfArenas
  BY NextArenaType DEF TypeOK
<1>3. CASE PostponeGame(l)
  <2>1. Become(l) /\ on_arena' = {}
    BY <1>1, <1>3 DEF PostponeGame, Become
  <2> QED
    BY <1>1, <1>3, <2>1, BecomeType
    DEF PostponeGame, CoreInv, CoreTypeOK, GamesRemain, RobotsAccounted, Playing,
        TypeOK, States
<1>4. CASE RejectArena(l)
  <2> DEFINE m == [l EXCEPT !.walls = @ \cup {NextArena}]
  <2>1. Agree(m) /\ m.on = {} /\ m.left = l.left
    <3>1. l \in Lists
      BY DEF Empty
    <3>2. m \in Lists
      BY <3>1, <1>2 DEF Lists
    <3> QED
      BY <1>1, <3>1, <3>2 DEF Agree, Lists
  <2>2. Become(m)
    BY <1>4 DEF RejectArena
  <2>3. on_arena' = {} /\ robots_left' = l.left
    BY <2>1, <2>2 DEF Become
  <2> HIDE DEF m
  <2>4. state' = state /\ game_nr' = game_nr /\ next_check_time' = next_check_time
    BY <1>4 DEF RejectArena
  <2>5. current_arena_nr' \in 0 .. NumberOfArenas
    BY <1>2, <1>4 DEF RejectArena
  <2>6. CoreTypeOK'
    BY <2>1, <2>2, <2>4, <2>5, BecomeType DEF CoreTypeOK, TypeOK
  <2>7. RobotsAccounted'
    <3>1. Playing' => robots_left' = Cardinality(on_arena')
      BY <1>1, <2>3, <2>4 DEF Playing
    <3> QED
      BY <2>1, <2>2, <2>3, <3>1, BecomeType DEF RobotsAccounted
  <2> QED
    BY <2>4, <2>6, <2>7 DEF CoreInv, GamesRemain
<1>5. CASE FailPlacement(l)
  <2>1. PICK placed \in SUBSET all_robots_in_sequence : Become(Placed(l, placed))
    BY <1>5 DEF FailPlacement
  <2>2. /\ Agree(Placed(l, placed))
        /\ Placed(l, placed).on = placed
        /\ Placed(l, placed).left = Cardinality(placed)
    BY PlacedAgrees
  <2>3. on_arena' = placed /\ robots_left' = Cardinality(placed)
    BY <2>1, <2>2 DEF Become
  <2>4. /\ state' = "BEFORE_GAME_START"
        /\ game_nr' = game_nr
        /\ next_check_time' = next_check_time
        /\ current_arena_nr' = NextArena
    BY <1>5 DEF FailPlacement
  <2>5. CoreTypeOK'
    BY <1>2, <2>1, <2>2, <2>4, BecomeType DEF CoreTypeOK, TypeOK, States
  <2>6. RobotsAccounted'
    BY <2>1, <2>2, <2>3, <2>4, BecomeType DEF RobotsAccounted, Playing
  <2> QED
    BY <2>4, <2>5, <2>6 DEF CoreInv, GamesRemain
<1>6. CASE BeginGame(l)
  <2> DEFINE p == Placed(l, all_robots_in_sequence)
             m == [p EXCEPT !.now = 0]
  <2>1. /\ Agree(p)
        /\ p.on = all_robots_in_sequence
        /\ p.left = Cardinality(all_robots_in_sequence)
    BY PlacedAgrees
  <2> HIDE DEF p
  <2>2. /\ Agree(m)
        /\ m.on = all_robots_in_sequence
        /\ m.left = Cardinality(all_robots_in_sequence)
    BY <2>1 DEF Agree, Lists
  <2>3. Become(m)
    BY <1>6 DEF BeginGame, p
  <2> HIDE DEF m
  <2>4. /\ on_arena' = all_robots_in_sequence
        /\ robots_left' = Cardinality(all_robots_in_sequence)
    BY <2>2, <2>3 DEF Become
  <2>5. /\ state' = "GAME_IN_PROGRESS"
        /\ game_nr' = game_nr + 1
        /\ next_check_time' = CheckInterval
        /\ current_arena_nr' = NextArena
    BY <1>6 DEF BeginGame
  <2>6. game_nr + 1 \in 0 .. GamesPerSequence
    BY SizeAssumption DEF TypeOK
  <2>7. CoreTypeOK'
    BY <1>2, <2>2, <2>3, <2>5, <2>6, TimeAssumption, BecomeType
    DEF CoreTypeOK, States
  <2>8. RobotsAccounted'
    BY <2>2, <2>3, <2>4, <2>5, BecomeType DEF RobotsAccounted, Playing
  <2> QED
    BY <2>5, <2>7, <2>8 DEF CoreInv, GamesRemain
<1> QED
  BY <1>3, <1>4, <1>5, <1>6 DEF StartGame

\* end_game, called with lists that agree.
LEMMA EndGameStep ==
    ASSUME TypeOK, GamesRemain, NEW l, Agree(l), EndGame(l)
    PROVE  CoreInv'
<1> DEFINE f == Finish(l, sequence_nr, game_nr)
<1>1. Empty(f) /\ f.left = 0 /\ f.now = l.now
  BY FinishEmpties DEF TypeOK
<1>2. all_robots_in_sequence' = all_robots_in_sequence
  BY DEF EndGame
<1>3. \/ game_nr = GamesPerSequence /\ EndSequence(f) /\ game_nr' = game_nr
      \/ game_nr # GamesPerSequence /\ StartGame(f)
  BY DEF EndGame
<1> HIDE DEF f
<1>4. CASE game_nr = GamesPerSequence /\ EndSequence(f) /\ game_nr' = game_nr
  <2>1. Agree(f) /\ f.on = {} /\ f.now \in Nat
    BY <1>1, EmptyAgrees DEF Empty, Lists
  <2>2. Become(f) /\ on_arena' = {}
    BY <1>4, <2>1 DEF EndSequence, Become
  <2>3. next_check_time' \in Nat
    BY <1>4, <2>1, TimeAssumption DEF EndSequence
  <2>4. /\ state' = "SHUTTING_DOWN_ROBOTS"
        /\ current_arena_nr' = current_arena_nr
    BY <1>4 DEF EndSequence
  <2>5. CoreTypeOK'
    BY <1>4, <2>1, <2>2, <2>3, <2>4, BecomeType DEF CoreTypeOK, TypeOK, States
  <2>6. RobotsAccounted'
    BY <1>2, <2>1, <2>2, <2>4, BecomeType DEF RobotsAccounted, Playing
  <2> QED
    BY <2>4, <2>5, <2>6 DEF CoreInv, GamesRemain
<1>5. CASE game_nr # GamesPerSequence /\ StartGame(f)
  <2>1. game_nr < GamesPerSequence
    BY <1>5, SizeAssumption DEF TypeOK
  <2> QED
    BY <1>1, <1>2, <1>5, <2>1, StartGameStep
<1> QED
  BY <1>3, <1>4, <1>5

\* start_sequence, called when nobody is on the arena.
LEMMA StartSequenceStep ==
    ASSUME NEW nr \in 0 .. SequencesInTournament, nr # SequencesInTournament,
           StartSequence({}, nr)
    PROVE  /\ state' = "STARTING_ROBOTS"
           /\ sequence_nr' \in 0 .. SequencesInTournament
           /\ game_nr' = 0 /\ current_arena_nr' = 0
           /\ all_robots_in_sequence' \subseteq Robots
           /\ total_time' = 0 /\ next_check_time' = StartupTime
<1>1. nr + 1 \in 0 .. SequencesInTournament
  BY SizeAssumption
<1> QED
  BY <1>1 DEF StartSequence, Lineups

-----------------------------------------------------------------------------
(***************************************************************************)
(* Type correctness and the accounting.                                    *)
(***************************************************************************)

\* The invariant holds in the beginning ...
LEMMA ArenaInvInit == Init => ArenaInv
<1> SUFFICES ASSUME Init PROVE ArenaInv
  OBVIOUS
<1>1. 0 \in 0 .. SequencesInTournament /\ 0 \in 0 .. GamesPerSequence
      /\ 0 \in 0 .. NumberOfArenas /\ 0 \in 0 .. MaxClicks
  BY SizeAssumption, ModeAssumption
<1>2. statistics \in [Robots -> Seq(Stat)]
  BY DEF Init
<1>3. robots_left \in Int
  BY ModeAssumption DEF Init
<1>4. TypeOK
  BY <1>1, <1>2, <1>3 DEF Init, TypeOK, States
<1> QED
  BY <1>4 DEF Init, ArenaInv, GamesRemain, RobotsAccounted, Playing

\* A step that starts a tournament.
LEMMA StartTournamentStep ==
    ASSUME StartTournament, server' \in {"up", "quit", "fatal"}, robots_left' \in Int,
           auto_start_and_end' \in BOOLEAN, pause_after_next_game' \in BOOLEAN,
           halt_next' \in BOOLEAN, clicks' \in 0 .. MaxClicks
    PROVE  ArenaInv'
<1>1. 0 \in 0 .. SequencesInTournament /\ 0 # SequencesInTournament
      /\ 0 \in 0 .. GamesPerSequence /\ 0 \in 0 .. NumberOfArenas
  BY SizeAssumption
<1>2. StartSequence({}, 0)
  BY DEF StartTournament
<1>3. TypeOK'
  BY <1>1, <1>2, StartSequenceStep, TimeAssumption DEF StartTournament, TypeOK, States
<1> QED
  BY <1>1, <1>2, <1>3, StartSequenceStep
  DEF StartTournament, ArenaInv, GamesRemain, RobotsAccounted, Playing

\* The clock only shows natural numbers.
LEMMA ClockType ==
    ASSUME TypeOK, NEW now \in Clock
    PROVE  now \in Nat
BY TimeAssumption DEF TypeOK, Clock

\* A step of the tick preserves the invariant.
LEMMA TickStep == ArenaInv /\ Tick => ArenaInv'
<1> SUFFICES ASSUME ArenaInv, Tick PROVE ArenaInv'
  OBVIOUS
<1> USE DEF ArenaInv
<1>1. CASE TickNotStarted
  BY <1>1, StartTournamentStep DEF TickNotStarted, TypeOK, buttons
<1>2. CASE TickFinished
  BY <1>2 DEF TickFinished, TypeOK, GamesRemain, RobotsAccounted, Playing,
              progress, arena, robotLists, buttons, time
<1>3. CASE TickStarting
  <2>1. total_time' \in Nat
    BY <1>3, ClockType DEF TickStarting
  <2> QED
    BY <1>3, <2>1 DEF TickStarting, TypeOK, GamesRemain, RobotsAccounted, Playing,
                      progress, arena, robotLists, buttons
<1>4. CASE TickFollowUp
  <2>1. PICK now \in Clock : PostponeGame(Current(now)) \/ BeginGame(Current(now))
    BY <1>4 DEF TickFollowUp
  <2>2. now \in Nat /\ StartGame(Current(now))
    BY <2>1, ClockType DEF StartGame
  <2>3. Agree(Current(now))
    BY <1>4, <2>2, CurrentAgrees DEF TickFollowUp
  <2>4. Empty(Current(now))
    BY <1>4, <2>3 DEF TickFollowUp, RobotsAccounted, Playing, Agree, Empty, Current
  <2>5. game_nr < GamesPerSequence /\ ~ Playing
    BY <1>4, SizeAssumption DEF TickFollowUp, GamesRemain, Playing
  <2>6. CoreInv'
    BY <1>4, <2>2, <2>4, <2>5, StartGameStep DEF TickFollowUp
  <2> QED
    BY <1>4, <2>6 DEF TickFollowUp, CoreInv, CoreTypeOK, TypeOK, buttons
<1>5. CASE TickFollowUpFails
  <2>1. PICK now \in Clock :
           \/ WindUp(Current(now))
           \/ \E placed \in SUBSET all_robots_in_sequence :
                 WindUp(Placed(Current(now), placed))
    BY <1>5 DEF TickFollowUpFails
  <2>2. now \in Nat
    BY ClockType
  <2>3. Agree(Current(now))
    BY <1>5, <2>2, CurrentAgrees DEF TickFollowUpFails
  <2>4. Empty(Current(now))
    BY <1>5, <2>3 DEF TickFollowUpFails, RobotsAccounted, Playing, Agree, Empty, Current
  <2>5. PICK l : Agree(l) /\ WindUp(l)
    BY <2>1, <2>3, <2>4, PlacedAgrees
  <2> DEFINE f == Finish(l, SequencesInTournament, GamesPerSequence)
  <2>6. Empty(f) /\ f.now = l.now
    BY <2>5, FinishEmpties, SizeAssumption
  <2>7. Become(f)
    BY <2>5 DEF WindUp
  <2> HIDE DEF f
  <2>8. Agree(f) /\ f.on = {} /\ l.now \in Nat /\ on_arena' = {}
    BY <2>6, <2>7, EmptyAgrees DEF Empty, Lists, Become
  <2>9. NextArena \in 0 .. NumberOfArenas
    BY NextArenaType DEF TypeOK
  <2>10. /\ sequence_nr' \in 0 .. SequencesInTournament
         /\ game_nr' \in 0 .. GamesPerSequence
         /\ state' = "SHUTTING_DOWN_ROBOTS"
         /\ current_arena_nr' \in 0 .. NumberOfArenas
         /\ next_check_time' \in Nat
    BY <2>5, <2>8, <2>9, SizeAssumption, TimeAssumption DEF WindUp
  <2>11. TypeOK'
    BY <1>5, <2>7, <2>8, <2>10, BecomeType DEF TickFollowUpFails, TypeOK, States, buttons
  <2> QED
    BY <1>5, <2>7, <2>8, <2>10, <2>11, BecomeType
    DEF TickFollowUpFails, GamesRemain, RobotsAccounted, Playing
<1>6. CASE TickGame
  <2>1. PICK now \in Clock, dying \in SUBSET (alive \cap on_arena) :
           \/ /\ \E stopped \in SUBSET (Update(dying, now).alive
                                              \cap all_robots_in_sequence) :
                    Become(CheckRobots(Update(dying, now), stopped))
              /\ next_check_time' = now + CheckInterval
           \/ /\ Become(Update(dying, now))
              /\ UNCHANGED next_check_time
    BY <1>6 DEF TickGame
  <2> DEFINE l == Update(dying, now)
  <2>2. now \in Nat /\ state = "GAME_IN_PROGRESS"
    BY <1>6, ClockType DEF TickGame
  <2>3. Agree(l) /\ l.left = Cardinality(l.on)
    BY <2>2, UpdateAgrees
  <2>4. next_check_time' \in Nat
    BY <2>1, <2>2, TimeAssumption DEF TypeOK
  <2> HIDE DEF l
  <2>5. PICK m : Agree(m) /\ m.left = Cardinality(m.on) /\ Become(m)
    <3>1. CASE Become(l)
      BY <2>3, <3>1
    <3>2. ASSUME NEW stopped \in SUBSET (l.alive \cap all_robots_in_sequence),
                 Become(CheckRobots(l, stopped))
          PROVE  /\ Agree(CheckRobots(l, stopped))
                 /\ CheckRobots(l, stopped).left = Cardinality(CheckRobots(l, stopped).on)
      <4>1. l \in Lists
        BY <2>3 DEF Agree
      <4>2. CheckRobots(l, stopped) \in Lists
        BY <3>2, <4>1 DEF CheckRobots, Lists
      <4>3. /\ CheckRobots(l, stopped).on = l.on
            /\ CheckRobots(l, stopped).left = l.left
            /\ CheckRobots(l, stopped).alive = l.alive \ stopped
            /\ CheckRobots(l, stopped).unset = l.unset \cup stopped
        BY <4>1 DEF CheckRobots, Lists
      <4> QED
        BY <2>3, <4>2, <4>3 DEF Agree
    <3> QED
      BY <2>1, <3>1, <3>2 DEF l
  <2>6. /\ state' \in {"PAUSED", "GAME_IN_PROGRESS"}
        /\ game_nr' = game_nr /\ all_robots_in_sequence' = all_robots_in_sequence
    BY <1>6, <2>2 DEF TickGame, progress
  <2>7. TypeOK'
    BY <1>6, <2>4, <2>5, <2>6, BecomeType DEF TickGame, TypeOK, States, progress
  <2>8. robots_left' = Cardinality(on_arena')
    BY <2>5 DEF Become
  <2>9. RobotsAccounted'
    BY <2>5, <2>6, <2>8, BecomeType DEF RobotsAccounted, Playing
  <2> QED
    BY <2>6, <2>7, <2>9 DEF GamesRemain
<1>7. CASE TickGameOver
  <2>1. PICK now \in Clock, dying \in SUBSET (alive \cap on_arena) :
           EndGame(Update(dying, now))
    BY <1>7 DEF TickGameOver
  <2>2. now \in Nat /\ state = "GAME_IN_PROGRESS"
    BY <1>7, ClockType DEF TickGameOver
  <2>3. Agree(Update(dying, now))
    BY <2>2, UpdateAgrees
  <2>4. CoreInv'
    BY <2>1, <2>3, EndGameStep
  <2>5. UNCHANGED <<sequence_nr, all_robots_in_sequence>>
    BY <2>1 DEF EndGame
  <2> QED
    BY <1>7, <2>4, <2>5 DEF TickGameOver, CoreInv, CoreTypeOK, TypeOK, buttons
<1>8. CASE TickPausing
  <2>1. total_time \in Nat /\ StartGame(Current(total_time))
    BY <1>8 DEF TickPausing, TypeOK
  <2>2. Agree(Current(total_time))
    BY <1>8, <2>1, CurrentAgrees DEF TickPausing
  <2>3. Empty(Current(total_time))
    BY <1>8, <2>2 DEF TickPausing, RobotsAccounted, Playing, Agree, Empty, Current
  <2>4. game_nr < GamesPerSequence /\ ~ Playing
    BY <1>8 DEF TickPausing, GamesRemain, Playing
  <2>5. CoreInv'
    BY <1>8, <2>1, <2>3, <2>4, StartGameStep DEF TickPausing
  <2> QED
    BY <1>8, <2>5 DEF TickPausing, CoreInv, CoreTypeOK, TypeOK, buttons
<1>9. CASE TickShuttingDown
  <2>1. total_time' \in Nat
    BY <1>9, ClockType DEF TickShuttingDown
  <2> QED
    BY <1>9, <2>1 DEF TickShuttingDown, TypeOK, GamesRemain, RobotsAccounted, Playing,
                      progress, arena, robotLists, buttons
<1>10. CASE TickSequenceOver
  <2>1. on_arena = {} /\ on_arena' = {} /\ alive' = {} /\ dead_but_stats_not_set' = {}
    BY <1>10 DEF TickSequenceOver, RobotsAccounted, Playing
  <2>2. CASE sequence_nr = SequencesInTournament
    BY <1>10, <2>1, <2>2
    DEF TickSequenceOver, TypeOK, GamesRemain, RobotsAccounted, Playing, States,
        progress, time, buttons
  <2>3. CASE sequence_nr # SequencesInTournament
    <3>1. StartSequence({}, sequence_nr)
      BY <1>10, <2>3 DEF TickSequenceOver
    <3>2. 0 \in 0 .. GamesPerSequence /\ 0 \in 0 .. NumberOfArenas
      BY SizeAssumption
    <3>3. TypeOK'
      BY <1>10, <2>1, <2>3, <3>1, <3>2, StartSequenceStep, TimeAssumption
      DEF TickSequenceOver, TypeOK, States, buttons
    <3> QED
      BY <2>1, <2>3, <3>1, <3>3, StartSequenceStep
      DEF GamesRemain, RobotsAccounted, Playing, TypeOK
  <2> QED
    BY <2>2, <2>3
<1>11. CASE TickImpossible
  BY <1>11 DEF TickImpossible, TypeOK, GamesRemain, RobotsAccounted, Playing,
               progress, arena, robotLists, buttons, time
<1> QED
  BY <1>1, <1>2, <1>3, <1>4, <1>5, <1>6, <1>7, <1>8, <1>9, <1>10, <1>11 DEF Tick

\* A button preserves the invariant.
LEMMA ButtonStep == ArenaInv /\ Button => ArenaInv'
<1> SUFFICES ASSUME ArenaInv, Button PROVE ArenaInv'
  OBVIOUS
<1> USE DEF ArenaInv
<1>0. ASSUME Click PROVE server' = server /\ clicks' \in 0 .. MaxClicks
  BY <1>0, ModeAssumption DEF Click, TypeOK
<1>1. CASE ClickNewTournament
  BY <1>0, <1>1, StartTournamentStep, ModeAssumption DEF ClickNewTournament, TypeOK
<1>2. CASE ClickPause
  <2>1. /\ pause_after_next_game' \in BOOLEAN
        /\ halt_next' \in BOOLEAN
        /\ state' \in States
        /\ Playing' <=> Playing
        /\ state' = "FINISHED" => state = "FINISHED"
        /\ state' = "STARTING_ROBOTS" => state = "STARTING_ROBOTS"
        /\ state' = "PAUSING_BETWEEN_GAMES" => state = "PAUSING_BETWEEN_GAMES"
    BY <1>2 DEF ClickPause, TypeOK, States, Playing
  <2> QED
    BY <1>0, <1>2, <2>1 DEF ClickPause, TypeOK, GamesRemain, RobotsAccounted,
                            progress, arena, robotLists, time
<1>3. CASE ClickStep
  BY <1>0, <1>3 DEF ClickStep, TypeOK, GamesRemain, RobotsAccounted, Playing, States,
                    progress, arena, robotLists, time
<1>4. CASE ClickEndGame
  <2>1. EndGame(Current(total_time)) /\ state # "FINISHED" /\ total_time \in Nat
    BY <1>4 DEF ClickEndGame, TypeOK
  <2>2. Agree(Current(total_time))
    BY <2>1, CurrentAgrees
  <2>3. CoreInv'
    BY <2>1, <2>2, EndGameStep
  <2>4. UNCHANGED <<sequence_nr, all_robots_in_sequence>>
    BY <2>1 DEF EndGame
  <2> QED
    BY <1>0, <1>4, <2>3, <2>4 DEF ClickEndGame, CoreInv, CoreTypeOK, TypeOK, buttons
<1>5. CASE ClickKillRobot
  BY <1>0, <1>5 DEF ClickKillRobot, TypeOK, GamesRemain, RobotsAccounted, Playing,
                    progress, arena, buttons, time
<1>6. CASE ClickEndTournament
  BY <1>0, <1>6 DEF ClickEndTournament, TypeOK, GamesRemain, RobotsAccounted, Playing,
                    States, progress, time
<1> QED
  BY <1>1, <1>2, <1>3, <1>4, <1>5, <1>6 DEF Button

\* ... and every callback keeps it.
LEMMA ArenaInvStep == ArenaInv /\ [Next]_vars => ArenaInv'
<1>1. ArenaInv /\ UNCHANGED vars => ArenaInv'
  BY DEF ArenaInv, vars, TypeOK, GamesRemain, RobotsAccounted, Playing
<1> QED
  BY <1>1, TickStep, ButtonStep DEF Next

\* The invariant holds in every reachable state.
THEOREM ArenaInvariant == Spec => []ArenaInv
BY ArenaInvInit, ArenaInvStep, PTL DEF Spec

\* Every variable keeps its type: the counters of games, sequences and arenas
\* never leave the ranges that arena_filenames and robots_in_sequence are
\* indexed with.
THEOREM TypeCorrect == Spec => []TypeOK
<1>1. ArenaInv => TypeOK
  BY DEF ArenaInv
<1> QED
  BY <1>1, ArenaInvariant, PTL

\* The robot list, the flags of the robots and robots_left always agree.
THEOREM AccountingCorrect == Spec => []RobotsAccounted
<1>1. ArenaInv => RobotsAccounted
  BY DEF ArenaInv
<1> QED
  BY <1>1, ArenaInvariant, PTL

-----------------------------------------------------------------------------
(***************************************************************************)
(* The walls.  An arena file that start_game rejects in a game leaves      *)
(* walls behind that end_game removes; rejected between two games, after a *)
(* pause or an early End Game, they stay for the next game.  The theorem   *)
(* excludes these cases.                                                   *)
(***************************************************************************)
\* The robots are only sent away after the last game of their sequence.
LastGame == state = "SHUTTING_DOWN_ROBOTS" => game_nr = GamesPerSequence

\* start_game does not end a sequence.
LEMMA StartGameNotLast ==
    ASSUME NEW l, StartGame(l), state # "SHUTTING_DOWN_ROBOTS"
    PROVE  state' # "SHUTTING_DOWN_ROBOTS"
BY DEF StartGame, PostponeGame, RejectArena, FailPlacement, BeginGame

\* end_game ends the sequence after the last game only.
LEMMA EndGameLast ==
    ASSUME NEW l, EndGame(l), LastGame
    PROVE  LastGame'
<1> DEFINE f == Finish(l, sequence_nr, game_nr)
<1>1. \/ game_nr = GamesPerSequence /\ game_nr' = game_nr
      \/ game_nr # GamesPerSequence /\ StartGame(f)
  BY DEF EndGame
<1> HIDE DEF f
<1> QED
  BY <1>1, StartGameNotLast DEF LastGame

\* No step reaches the end of a sequence with games left.
LEMMA LastGameStep ==
    ASSUME LastGame, [Next]_vars
    PROVE  LastGame'
<1> USE DEF LastGame
<1>1. CASE UNCHANGED vars
  BY <1>1 DEF vars
<1>2. CASE Tick
  <2>1. CASE TickNotStarted
    BY <2>1 DEF TickNotStarted, StartTournament, StartSequence
  <2>2. CASE TickFinished \/ TickStarting \/ TickShuttingDown \/ TickImpossible
    BY <2>2 DEF TickFinished, TickStarting, TickShuttingDown, TickImpossible, progress
  <2>3. CASE TickFollowUp
    BY <2>3 DEF TickFollowUp, PostponeGame, BeginGame
  <2>4. CASE TickFollowUpFails
    BY <2>4 DEF TickFollowUpFails, WindUp
  <2>5. CASE TickGame
    BY <2>5 DEF TickGame
  <2>6. CASE TickGameOver
    BY <2>6, EndGameLast DEF TickGameOver
  <2>7. CASE TickPausing
    BY <2>7, StartGameNotLast DEF TickPausing
  <2>8. CASE TickSequenceOver
    BY <2>8 DEF TickSequenceOver, StartSequence
  <2> QED
    BY <1>2, <2>1, <2>2, <2>3, <2>4, <2>5, <2>6, <2>7, <2>8 DEF Tick
<1>3. CASE Button
  <2>1. CASE ClickNewTournament
    BY <2>1 DEF ClickNewTournament, StartTournament, StartSequence
  <2>2. CASE ClickPause
    BY <2>2 DEF ClickPause, progress
  <2>3. CASE ClickStep \/ ClickKillRobot \/ ClickEndTournament
    BY <2>3 DEF ClickStep, ClickKillRobot, ClickEndTournament, progress
  <2>4. CASE ClickEndGame
    BY <2>4, EndGameLast DEF ClickEndGame
  <2> QED
    BY <1>3, <2>1, <2>2, <2>3, <2>4 DEF Button
<1> QED
  BY <1>1, <1>2, <1>3 DEF Next

\* The walls of the current arena are there in a game, and no walls between two games.
WallsKept ==
    /\ walls = IF Playing THEN {current_arena_nr} ELSE {}
    /\ state = "STARTING_ROBOTS" => current_arena_nr = 0
    /\ pause_after_next_game \/ state = "PAUSING_BETWEEN_GAMES" => GameMode = "COMPETITION"

\* No arena file can be rejected between two games: there is no pause in normal and debug
\* mode, and no End Game button but in debug mode, where it can start the first game only.
WallsSafe ==
    \/ BadArenas = {}
    \/ GameMode = "NORMAL"
    \/ GameMode = "DEBUG" /\ 1 \notin BadArenas

\* start_game, called without walls.
LEMMA StartGameWalls ==
    ASSUME NEW l, l \in Lists, l.walls = {}, StartGame(l), WallsKept,
           pause_after_next_game' = pause_after_next_game,
           \/ Playing \/ BadArenas = {}
           \/ state = "STARTING_ROBOTS" /\ current_arena_nr = 0 /\ 1 \notin BadArenas
    PROVE  WallsKept'
<1>1. CASE PostponeGame(l)
  BY <1>1 DEF PostponeGame, Become, WallsKept, Playing
<1>2. CASE RejectArena(l)
  <2>1. Playing
    <3>1. NextArena \in BadArenas
      BY <1>2 DEF RejectArena
    <3>2. current_arena_nr = 0 => NextArena = 1
      BY SizeAssumption DEF NextArena
    <3> QED
      BY <3>1, <3>2
  <2>2. walls' = {NextArena} /\ current_arena_nr' = NextArena /\ state' = state
    BY <1>2 DEF RejectArena, Become, Lists
  <2> QED
    BY <2>1, <2>2 DEF WallsKept, Playing
<1>3. CASE FailPlacement(l)
  <2>1. PICK placed \in SUBSET all_robots_in_sequence : Become(Placed(l, placed))
    BY <1>3 DEF FailPlacement
  <2>2. walls' = {NextArena}
    BY <2>1 DEF Placed, Become, Lists
  <2>3. current_arena_nr' = NextArena /\ state' = "BEFORE_GAME_START"
    BY <1>3 DEF FailPlacement
  <2> QED
    BY <2>2, <2>3 DEF WallsKept, Playing
<1>4. CASE BeginGame(l)
  <2>1. walls' = {NextArena}
    BY <1>4 DEF BeginGame, Placed, Become, Lists
  <2>2. current_arena_nr' = NextArena /\ state' = "GAME_IN_PROGRESS"
    BY <1>4 DEF BeginGame
  <2> QED
    BY <2>1, <2>2 DEF WallsKept, Playing
<1> QED
  BY <1>1, <1>2, <1>3, <1>4 DEF StartGame

\* end_game removes the walls before it calls start_game.
LEMMA EndGameWalls ==
    ASSUME TypeOK, LastGame, WallsKept, NEW l, Agree(l), EndGame(l),
           pause_after_next_game' = pause_after_next_game,
           \/ Playing \/ BadArenas = {}
           \/ state = "STARTING_ROBOTS" /\ current_arena_nr = 0 /\ 1 \notin BadArenas
           \/ state = "SHUTTING_DOWN_ROBOTS"
    PROVE  WallsKept'
<1> DEFINE f == Finish(l, sequence_nr, game_nr)
<1>1. f \in Lists /\ f.walls = {}
  <2>1. Empty(f)
    BY FinishEmpties DEF TypeOK
  <2> QED
    BY <2>1 DEF Empty, Finish
<1>2. \/ game_nr = GamesPerSequence /\ EndSequence(f)
      \/ game_nr # GamesPerSequence /\ StartGame(f)
  BY DEF EndGame
<1> HIDE DEF f
<1>3. CASE game_nr = GamesPerSequence /\ EndSequence(f)
  BY <1>1, <1>3 DEF EndSequence, Become, WallsKept, Playing
<1>4. CASE game_nr # GamesPerSequence /\ StartGame(f)
  BY <1>1, <1>4, StartGameWalls DEF LastGame
<1> QED
  BY <1>2, <1>3, <1>4

\* Every callback keeps the walls those of the arena played in.
LEMMA WallsStep ==
    ASSUME WallsSafe, ArenaInv, LastGame, WallsKept, [Next]_vars
    PROVE  WallsKept'
<1>0. TypeOK
  BY DEF ArenaInv
<1>c. ASSUME state # "FINISHED", NEW now \in Nat
      PROVE  Agree(Current(now)) /\ Current(now) \in Lists /\ Current(now).walls = walls
  BY <1>0, <1>c, CurrentAgrees DEF ArenaInv, Agree, Current
<1>1. CASE UNCHANGED vars
  BY <1>1 DEF vars, WallsKept, Playing
<1>2. CASE Tick
  <2>1. CASE TickNotStarted
    BY <2>1 DEF TickNotStarted, StartTournament, StartSequence, WallsKept, Playing, buttons
  <2>2. CASE TickFinished \/ TickStarting \/ TickShuttingDown \/ TickImpossible
    BY <2>2 DEF TickFinished, TickStarting, TickShuttingDown, TickImpossible, WallsKept, Playing,
                arena, buttons
  <2>3. CASE TickFollowUp
    <3>1. PICK now \in Nat : PostponeGame(Current(now)) \/ BeginGame(Current(now))
      BY <1>0, <2>3, ClockType DEF TickFollowUp
    <3>2. Current(now) \in Lists /\ Current(now).walls = {} /\ StartGame(Current(now))
      BY <1>c, <2>3, <3>1 DEF TickFollowUp, WallsKept, Playing, StartGame
    <3>3. PostponeGame(Current(now)) => WallsKept'
      BY <2>3, <3>2 DEF PostponeGame, Become, WallsKept, Playing, TickFollowUp, buttons
    <3>4. BeginGame(Current(now)) => WallsKept'
      BY <2>3, <3>2 DEF BeginGame, Placed, Lists, Become, WallsKept, Playing, TickFollowUp,
                        buttons
    <3> QED
      BY <3>1, <3>3, <3>4
  <2>4. CASE TickFollowUpFails
    <3>1. PICK l : WindUp(l)
      BY <2>4 DEF TickFollowUpFails
    <3>2. walls' = {} /\ state' = "SHUTTING_DOWN_ROBOTS"
      BY <3>1 DEF WindUp, Become, Finish
    <3> QED
      BY <2>4, <3>2 DEF TickFollowUpFails, WallsKept, Playing, buttons
  <2>5. CASE TickGame
    <3>1. PICK now, dying, stopped :
            \/ Become(CheckRobots(Update(dying, now), stopped))
            \/ Become(Update(dying, now))
      BY <2>5 DEF TickGame
    <3>2. /\ Update(dying, now).walls = walls
          /\ CheckRobots(Update(dying, now), stopped).walls = walls
      BY DEF Update, CheckRobots
    <3>3. walls' = walls
      BY <3>1, <3>2 DEF Become
    <3> QED
      BY <2>5, <3>3 DEF TickGame, WallsKept, Playing
  <2>6. CASE TickGameOver
    <3>1. PICK now \in Nat, dying \in SUBSET (alive \cap on_arena) : EndGame(Update(dying, now))
      BY <1>0, <2>6, ClockType DEF TickGameOver
    <3>2. Agree(Update(dying, now))
      BY <1>0, <2>6, UpdateAgrees DEF TickGameOver, ArenaInv
    <3> QED
      BY <1>0, <2>6, <3>1, <3>2, EndGameWalls DEF TickGameOver, Playing, buttons
  <2>7. CASE TickPausing
    <3>1. BadArenas = {}
      BY <2>7 DEF WallsSafe, WallsKept, TickPausing
    <3>2. Current(total_time) \in Lists /\ Current(total_time).walls = {}
      BY <1>0, <1>c, <2>7 DEF TickPausing, WallsKept, Playing, TypeOK
    <3> QED
      BY <2>7, <3>1, <3>2, StartGameWalls DEF TickPausing, buttons
  <2>8. CASE TickSequenceOver
    BY <2>8 DEF TickSequenceOver, StartSequence, WallsKept, Playing, buttons
  <2> QED
    BY <1>2, <2>1, <2>2, <2>3, <2>4, <2>5, <2>6, <2>7, <2>8 DEF Tick
<1>3. CASE Button
  <2>1. CASE ClickNewTournament
    BY <2>1 DEF ClickNewTournament, StartTournament, StartSequence, WallsKept, Playing
  <2>2. CASE ClickPause
    <3>1. Playing' <=> Playing
      BY <2>2 DEF ClickPause, Playing
    <3>2. UNCHANGED <<walls, current_arena_nr>>
          /\ (state' \in {"STARTING_ROBOTS", "PAUSING_BETWEEN_GAMES"} => state' = state)
      BY <2>2 DEF ClickPause, arena
    <3>3. pause_after_next_game' => pause_after_next_game \/ GameMode = "COMPETITION"
      BY <2>2 DEF ClickPause
    <3> QED
      BY <3>1, <3>2, <3>3 DEF WallsKept
  <2>3. CASE ClickStep \/ ClickKillRobot \/ ClickEndTournament
    BY <2>3 DEF ClickStep, ClickKillRobot, ClickEndTournament, WallsKept, Playing, arena, buttons
  <2>4. CASE ClickEndGame
    <3>1. state \in States \ {"NOT_STARTED", "FINISHED"} /\ GameMode = "DEBUG"
      BY <1>0, <2>4 DEF ClickEndGame, TypeOK
    <3>2. \/ Playing
          \/ state = "STARTING_ROBOTS" /\ current_arena_nr = 0
          \/ state = "SHUTTING_DOWN_ROBOTS"
      BY <3>1 DEF States, Playing, WallsKept
    <3>3. Agree(Current(total_time))
      BY <1>0, <1>c, <3>1 DEF TypeOK
    <3>4. EndGame(Current(total_time)) /\ pause_after_next_game' = pause_after_next_game
      BY <2>4 DEF ClickEndGame, buttons
    <3> QED
      BY <1>0, <3>1, <3>2, <3>3, <3>4, EndGameWalls DEF WallsSafe
  <2> QED
    BY <1>3, <2>1, <2>2, <2>3, <2>4 DEF Button
<1> QED
  BY <1>1, <1>2, <1>3 DEF Next

\* A game is played on the walls of its own arena alone, whatever arenas there are and
\* however long the tournament is, unless an arena file is rejected between two games.
THEOREM WallsCorrect == WallsSafe => (Spec => []OwnWalls)
<1> SUFFICES ASSUME WallsSafe PROVE Spec => []OwnWalls
  OBVIOUS
<1>1. Init => LastGame /\ WallsKept
  BY DEF Init, LastGame, WallsKept, Playing
<1>2. ArenaInv /\ LastGame /\ WallsKept /\ [Next]_vars => LastGame' /\ WallsKept'
  BY LastGameStep, WallsStep
<1>3. WallsKept => OwnWalls
  BY DEF WallsKept, OwnWalls
<1> QED
  BY <1>1, <1>2, <1>3, ArenaInvariant, PTL DEF Spec

-----------------------------------------------------------------------------
(***************************************************************************)
(* The tournament engine implements the abstract tournament, for any       *)
(* number of robots, games, sequences and arenas and in every game mode,   *)
(* provided that every robot finds a place on the arena.                   *)
(*                                                                         *)
(* The engine scores with robots_left and with flags; module Tournament    *)
(* knows only who is in the game.  The invariant ArenaInv relates the two: *)
(* it is what turns each step into a step of Tournament.                   *)
(***************************************************************************)

\* Module Tournament counts as FiniteSets does.
LEMMA SameCardinality ==
    ASSUME NEW S
    PROVE  T!Cardinality(S) = Cardinality(S)
BY Zenon DEF T!Cardinality, Cardinality

\* Robots that leave together are given the result of module Tournament.
LEMMA SameResult ==
    ASSUME NEW group, NEW n \in Int, NEW stopped \in BOOLEAN
    PROVE  T!Result(group, n, stopped)
             = StatOf(sequence_nr, game_nr, n, Cardinality(group), stopped)
BY SameCardinality DEF T!Result, StatOf

\* The two specifications score alike.
LEMMA SameScoring ==
    ASSUME NEW stats, NEW group, NEW result
    PROVE  T!With(stats, group, result) = SetStats(stats, group, result)
BY DEF T!With, SetStats

\* update: those who died since the last tick or in this one leave together.
LEMMA UpdateLeaves ==
    ASSUME TypeOK, RobotsAccounted, state = "GAME_IN_PROGRESS", NEW now \in Nat,
           NEW dying \in SUBSET (alive \cap on_arena)
    PROVE  \E group \in SUBSET on_arena :
              /\ Update(dying, now).on = on_arena \ group
              /\ Update(dying, now).stats = T!Left(group)
<1>1. PICK group \in SUBSET on_arena : Leaves(group, Update(dying, now))
  BY UpdateScores
<1> DEFINE left == Cardinality(on_arena \ group)
<1>2. left \in Int /\ FALSE \in BOOLEAN
  BY RobotSetsFinite DEF TypeOK
<1> HIDE DEF left
<1>3. T!Left(group) = T!With(statistics, group, T!Result(group, left, FALSE))
  BY SameCardinality DEF T!Left, left
<1>4. T!Result(group, left, FALSE)
        = StatOf(sequence_nr, game_nr, left, Cardinality(group), FALSE)
  BY <1>2, SameResult, Zenon
<1>5. T!Left(group)
        = SetStats(statistics, group,
                   StatOf(sequence_nr, game_nr, left, Cardinality(group), FALSE))
  BY <1>3, <1>4, SameScoring
<1> QED
  BY <1>1, <1>5 DEF Leaves, left

\* end_game: the robots still on the arena are scored as survivors together.
LEMMA FinishScores ==
    ASSUME NEW l, Agree(l), Counted(l)
    PROVE  Finish(l, sequence_nr, game_nr).stats
             = T!With(l.stats, l.on, T!Result(l.on, 0, TRUE))
<1>1. 0 \in Int /\ TRUE \in BOOLEAN
  OBVIOUS
<1>2. T!With(l.stats, l.on, T!Result(l.on, 0, TRUE))
        = SetStats(l.stats, l.on, StatOf(sequence_nr, game_nr, 0, Cardinality(l.on), TRUE))
  BY <1>1, SameResult, SameScoring, Zenon
<1> QED
  BY <1>2, FinishScoresAll

\* end_game, after group has left the game, is the end of the abstract game.
LEMMA EndGameIsOver ==
    ASSUME TypeOK, ~ PlacementMayFail, NEW l, Agree(l), Counted(l),
           NEW group \in SUBSET on_arena, l.on = on_arena \ group,
           l.stats = T!Left(group), EndGame(l)
    PROVE  T!Over
<1> DEFINE f == Finish(l, sequence_nr, game_nr)
<1>1. Empty(f) /\ f.on = {}
  BY FinishEmpties DEF TypeOK, Empty
<1>2. f.stats = T!With(T!Left(group), on_arena \ group, T!Result(on_arena \ group, 0, TRUE))
  BY FinishScores
<1>3. /\ sequence_nr' = sequence_nr
      /\ all_robots_in_sequence' = all_robots_in_sequence
      /\ \/ game_nr = GamesPerSequence /\ EndSequence(f) /\ game_nr' = game_nr
         \/ game_nr # GamesPerSequence /\ StartGame(f)
  BY DEF EndGame
<1> HIDE DEF f
<1>4. /\ statistics' = f.stats
      /\ \/ on_arena' = {} /\ game_nr' = game_nr
         \/ /\ on_arena' = all_robots_in_sequence
            /\ game_nr < GamesPerSequence /\ game_nr' = game_nr + 1
  <2>1. CASE EndSequence(f) /\ game_nr' = game_nr
    BY <1>1, <2>1 DEF EndSequence, Become
  <2>2. CASE game_nr # GamesPerSequence /\ StartGame(f)
    <3>1. game_nr < GamesPerSequence
      BY <2>2, SizeAssumption DEF TypeOK
    <3> QED
      BY <1>1, <2>2, <3>1, StartGamePlays
  <2> QED
    BY <1>3, <2>1, <2>2
<1> QED
  BY <1>2, <1>3, <1>4 DEF T!Over

\* Nobody has left the game since the last tick.
LEMMA NobodyLeft ==
    ASSUME TypeOK
    PROVE  T!Left({}) = statistics
<1>1. T!Left({})
        = SetStats(statistics, {}, T!Result({}, Cardinality(on_arena \ {}), FALSE))
  BY SameScoring, SameCardinality DEF T!Left
<1> QED
  BY <1>1, NobodyScored DEF TypeOK

\* start_game with nobody on the arena is a step in which nobody is scored.
LEMMA StartGameIsOver ==
    ASSUME TypeOK, ~ PlacementMayFail, NEW now, Empty(Current(now)),
           StartGame(Current(now)), on_arena = {}, game_nr < GamesPerSequence,
           UNCHANGED <<sequence_nr, all_robots_in_sequence>>
    PROVE  T!Over
<1>1. /\ statistics' = statistics
      /\ \/ on_arena' = {} /\ game_nr' = game_nr
         \/ on_arena' = all_robots_in_sequence /\ game_nr' = game_nr + 1
  <2>1. Current(now).stats = statistics
    BY DEF Current
  <2> QED
    BY <2>1, StartGamePlays
<1>2. T!With(T!Left({}), {}, T!Result({}, 0, TRUE)) = statistics
  <2>1. T!With(T!Left({}), {}, T!Result({}, 0, TRUE))
          = SetStats(statistics, {}, T!Result({}, 0, TRUE))
    BY NobodyLeft, SameScoring
  <2> QED
    BY <2>1, NobodyScored DEF TypeOK
<1>3. {} \in SUBSET on_arena /\ on_arena \ {} = {}
  BY Zenon
<1> QED
  BY <1>1, <1>2, <1>3 DEF T!Over

-----------------------------------------------------------------------------
(***************************************************************************)
(* Every step of the engine is a step of the tournament, or changes        *)
(* nothing in it.                                                          *)
(***************************************************************************)

\* The line-ups of the engine are line-ups of the abstract tournament.
LEMMA SameLineups == T!Lineups = Lineups
BY SameCardinality DEF T!Lineups, Lineups

\* A new tournament.
LEMMA StartTournamentIsNew ==
    ASSUME StartTournament
    PROVE  T!New
<1>1. PICK s \in Lineups : all_robots_in_sequence' = {} \cup s
  BY DEF StartTournament, StartSequence
<1>2. all_robots_in_sequence' \in T!Lineups
  BY <1>1, SameLineups
<1> QED
  BY <1>2 DEF StartTournament, StartSequence, T!New

\* A call of timeout_function does what the tournament may do, or nothing.
LEMMA TickImplements ==
    ASSUME ArenaInv, LastGame, Tick, ~ PlacementMayFail
    PROVE  [T!Next]_T!vars
<1> USE DEF ArenaInv
<1>1. CASE TickNotStarted
  BY <1>1, StartTournamentIsNew DEF TickNotStarted, T!Next
<1>2. CASE TickFinished
  BY <1>2 DEF TickFinished, T!vars, progress, robotLists
<1>3. CASE TickStarting
  BY <1>3 DEF TickStarting, T!vars, progress, robotLists
<1>4. CASE TickFollowUp
  <2>1. PICK now \in Clock : PostponeGame(Current(now)) \/ BeginGame(Current(now))
    BY <1>4 DEF TickFollowUp
  <2>2. now \in Nat /\ StartGame(Current(now))
    BY <2>1, ClockType DEF StartGame
  <2>3. Agree(Current(now))
    BY <1>4, <2>2, CurrentAgrees DEF TickFollowUp
  <2>4. Empty(Current(now)) /\ on_arena = {}
    BY <1>4, <2>3 DEF TickFollowUp, RobotsAccounted, Playing, Agree, Empty, Current
  <2>5. game_nr < GamesPerSequence
    BY <1>4, SizeAssumption DEF TickFollowUp, GamesRemain
  <2>6. UNCHANGED <<sequence_nr, all_robots_in_sequence>>
    BY <1>4 DEF TickFollowUp
  <2> QED
    BY <2>2, <2>4, <2>5, <2>6, StartGameIsOver DEF T!Next
<1>5. CASE TickFollowUpFails
  <2>1. PICK now \in Clock : WindUp(Current(now))
    BY <1>5 DEF TickFollowUpFails
  <2>2. now \in Nat
    BY ClockType
  <2>3. Agree(Current(now))
    BY <1>5, <2>2, CurrentAgrees DEF TickFollowUpFails
  <2>4. on_arena = {} /\ game_nr = 0
    BY <1>5 DEF TickFollowUpFails, RobotsAccounted, Playing, GamesRemain
  <2> DEFINE f == Finish(Current(now), SequencesInTournament, GamesPerSequence)
             stat == StatOf(SequencesInTournament, GamesPerSequence, 0, robots_left, TRUE)
  <2>5. f.on = {} /\ f.stats = SetStats(statistics, {}, stat)
    BY <2>3, <2>4 DEF Finish, Current, Agree
  <2>6. f.stats = statistics
    <3> HIDE DEF f, stat
    <3> QED
      BY <2>5, NobodyScored DEF TypeOK
  <2>7. /\ sequence_nr' = SequencesInTournament /\ game_nr' = GamesPerSequence
        /\ Become(f)
    BY <2>1 DEF WindUp
  <2>8. all_robots_in_sequence' = all_robots_in_sequence
    BY <1>5 DEF TickFollowUpFails
  <2> HIDE DEF f
  <2> QED
    BY <2>4, <2>5, <2>6, <2>7, <2>8 DEF Become, T!Cancel, T!Next
<1>6. CASE TickGame
  <2>1. PICK now \in Clock, dying \in SUBSET (alive \cap on_arena) :
           \/ \E stopped \in SUBSET (Update(dying, now).alive
                                           \cap all_robots_in_sequence) :
                 Become(CheckRobots(Update(dying, now), stopped))
           \/ Become(Update(dying, now))
    BY <1>6 DEF TickGame
  <2> DEFINE l == Update(dying, now)
  <2>2. now \in Nat /\ state = "GAME_IN_PROGRESS"
    BY <1>6, ClockType DEF TickGame
  <2>3. PICK group \in SUBSET on_arena : l.on = on_arena \ group /\ l.stats = T!Left(group)
    BY <2>2, UpdateLeaves
  <2>4. l \in Lists
    BY <2>2, UpdateAgrees DEF Agree
  <2> HIDE DEF l
  <2>5. \A stopped : /\ CheckRobots(l, stopped).on = l.on
                    /\ CheckRobots(l, stopped).stats = l.stats
    BY <2>4 DEF CheckRobots, Lists
  <2>6. on_arena' = l.on /\ statistics' = l.stats
    BY <2>1, <2>5 DEF Become, l
  <2>7. UNCHANGED <<sequence_nr, game_nr, all_robots_in_sequence>>
    BY <1>6 DEF TickGame, progress
  <2> QED
    BY <2>3, <2>6, <2>7 DEF T!Leave, T!Next
<1>7. CASE TickGameOver
  <2>1. PICK now \in Clock, dying \in SUBSET (alive \cap on_arena) :
           EndGame(Update(dying, now))
    BY <1>7 DEF TickGameOver
  <2>2. now \in Nat /\ state = "GAME_IN_PROGRESS"
    BY <1>7, ClockType DEF TickGameOver
  <2>3. Agree(Update(dying, now)) /\ Counted(Update(dying, now))
    BY <2>2, UpdateAgrees DEF Counted
  <2>4. PICK group \in SUBSET on_arena :
           /\ Update(dying, now).on = on_arena \ group
           /\ Update(dying, now).stats = T!Left(group)
    BY <2>2, UpdateLeaves
  <2> QED
    BY <2>1, <2>3, <2>4, EndGameIsOver DEF T!Next
<1>8. CASE TickPausing
  <2>1. total_time \in Nat /\ StartGame(Current(total_time))
    BY <1>8 DEF TickPausing, TypeOK
  <2>2. Agree(Current(total_time))
    BY <1>8, <2>1, CurrentAgrees DEF TickPausing
  <2>3. Empty(Current(total_time)) /\ on_arena = {}
    BY <1>8, <2>2 DEF TickPausing, RobotsAccounted, Playing, Agree, Empty, Current
  <2>4. game_nr < GamesPerSequence
    BY <1>8 DEF TickPausing, GamesRemain
  <2>5. UNCHANGED <<sequence_nr, all_robots_in_sequence>>
    BY <1>8 DEF TickPausing
  <2> QED
    BY <2>1, <2>3, <2>4, <2>5, StartGameIsOver DEF T!Next
<1>9. CASE TickShuttingDown
  BY <1>9 DEF TickShuttingDown, T!vars, progress, robotLists
<1>10. CASE TickSequenceOver
  <2>1. on_arena = {} /\ on_arena' = on_arena /\ statistics' = statistics
    BY <1>10 DEF TickSequenceOver, RobotsAccounted, Playing
  <2>2. CASE sequence_nr = SequencesInTournament
    BY <1>10, <2>1, <2>2 DEF TickSequenceOver, progress, T!Disband, T!Next
  <2>3. CASE sequence_nr # SequencesInTournament
    <3>1. StartSequence({}, sequence_nr)
      BY <1>10, <2>3 DEF TickSequenceOver
    <3>2. PICK s \in Lineups : all_robots_in_sequence' = {} \cup s
      BY <3>1 DEF StartSequence
    <3>3. all_robots_in_sequence' \in T!Lineups
      BY <3>2, SameLineups
    <3>4. sequence_nr < SequencesInTournament /\ game_nr = GamesPerSequence
      BY <1>10, <2>3, SizeAssumption DEF TickSequenceOver, TypeOK, LastGame
    <3> QED
      BY <2>1, <3>1, <3>3, <3>4 DEF StartSequence, T!NextSequence, T!Next
  <2> QED
    BY <2>2, <2>3
<1>11. CASE TickImpossible
  BY <1>11 DEF TickImpossible, T!vars, progress, robotLists
<1> QED
  BY <1>1, <1>2, <1>3, <1>4, <1>5, <1>6, <1>7, <1>8, <1>9, <1>10, <1>11 DEF Tick

\* So does a button that is pressed.
LEMMA ButtonImplements ==
    ASSUME ArenaInv, Button, ~ PlacementMayFail
    PROVE  [T!Next]_T!vars
<1> USE DEF ArenaInv
<1>1. CASE ClickNewTournament
  BY <1>1, StartTournamentIsNew DEF ClickNewTournament, T!Next
<1>2. CASE ClickPause
  BY <1>2 DEF ClickPause, T!vars, progress, robotLists
<1>3. CASE ClickStep
  BY <1>3 DEF ClickStep, T!vars, progress, robotLists
<1>4. CASE ClickEndGame
  <2> DEFINE l == Current(total_time)
  <2>1. EndGame(l) /\ state # "FINISHED" /\ total_time \in Nat
    BY <1>4 DEF ClickEndGame, TypeOK
  <2>2. Agree(l)
    BY <2>1, CurrentAgrees
  <2>3. l.on = on_arena \ {} /\ l.stats = statistics /\ l.left = robots_left
    BY DEF Current
  <2>4. Counted(l)
    BY <2>3 DEF Counted, RobotsAccounted
  <2>5. l.stats = T!Left({})
    BY <2>3, NobodyLeft
  <2>6. {} \in SUBSET on_arena
    BY Zenon
  <2> HIDE DEF l
  <2> QED
    BY <2>1, <2>2, <2>3, <2>4, <2>5, <2>6, EndGameIsOver DEF T!Next
<1>5. CASE ClickKillRobot
  BY <1>5 DEF ClickKillRobot, T!vars, progress
<1>6. CASE ClickEndTournament
  BY <1>6 DEF ClickEndTournament, progress, T!Disband, T!Next
<1> QED
  BY <1>1, <1>2, <1>3, <1>4, <1>5, <1>6 DEF Button

\* What the engine computes with counters and flags over many callbacks
\* (start_sequence, start_game, update_robots, end_game, interrupt_tournament)
\* is the abstract tournament, if no placement fails.
THEOREM EngineImplementsTournament ==
    ASSUME ~ PlacementMayFail
    PROVE  Spec => ImplementsTournament
<1>1. Init => T!Init
  BY DEF Init, T!Init
<1>2. Init => LastGame
  BY DEF Init, LastGame
<1>3. LastGame /\ [Next]_vars => LastGame'
  BY LastGameStep
<1>4. ArenaInv /\ LastGame /\ [Next]_vars => [T!Next]_T!vars
  <2>1. UNCHANGED vars => UNCHANGED T!vars
    BY DEF vars, T!vars
  <2> QED
    BY <2>1, TickImplements, ButtonImplements DEF Next
<1> QED
  BY <1>1, <1>2, <1>3, <1>4, ArenaInvariant, PTL DEF Spec, ImplementsTournament, T!Spec

-----------------------------------------------------------------------------
(***************************************************************************)
(* Every robot has at most one result per game, in the order of the        *)
(* schedule.  This needs a caller discipline the code does not state: it   *)
(* fails when End Game is pressed after start_game could not place the     *)
(* robots of a second game, so the theorem excludes debug mode with        *)
(* placement failures.                                                     *)
(***************************************************************************)

\* The results in the lists l, seen from game g of sequence s.
Ordered(l, s, g) ==
    \A r \in Robots :
       /\ InOrder(l.stats[r])
       /\ NoneAfter(l.stats[r], s, g)
       /\ r \in l.on => AllBefore(l.stats[r], s, g)

\* A game that could not be set up is seen only if placements fail.
SetUpFails == state = "BEFORE_GAME_START" => PlacementMayFail

ResultsInv == ArenaInv /\ SetUpFails /\ ResultsInOrder

-----------------------------------------------------------------------------
\* A later result at the end of a list keeps the list in order.
LEMMA AppendInOrder ==
    ASSUME NEW list \in Seq(Stat), NEW x \in Stat, InOrder(list),
           AllBefore(list, x.seq, x.game)
    PROVE  InOrder(Append(list, x)) /\ NoneAfter(Append(list, x), x.seq, x.game)
<1>1. x.seq \in Nat /\ x.game \in Nat
  BY DEF Stat
<1>2. \A i \in 1 .. Len(list) : list[i].seq \in Nat /\ list[i].game \in Nat
  <2> TAKE i \in 1 .. Len(list)
  <2>1. list[i] \in Stat
    OBVIOUS
  <2> QED
    BY <2>1 DEF Stat
<1>3. /\ Len(Append(list, x)) = Len(list) + 1
      /\ Append(list, x)[Len(list) + 1] = x
      /\ \A i \in 1 .. Len(list) : Append(list, x)[i] = list[i]
      /\ Len(list) \in Nat
  OBVIOUS
<1> DEFINE longer == Append(list, x)
<1> HIDE DEF longer
<1>4. /\ Len(longer) = Len(list) + 1
      /\ longer[Len(list) + 1] = x
      /\ \A i \in 1 .. Len(list) : longer[i] = list[i]
  BY <1>3 DEF longer
<1>5. InOrder(longer)
  <2> SUFFICES ASSUME NEW i \in 1 .. Len(longer), NEW j \in 1 .. Len(longer), i < j
               PROVE  Before(longer[i].seq, longer[i].game, longer[j].seq, longer[j].game)
    BY DEF InOrder
  <2>1. i \in 1 .. Len(list) /\ longer[i] = list[i]
    BY <1>3, <1>4
  <2>2. CASE j = Len(list) + 1
    BY <1>4, <2>1, <2>2 DEF AllBefore
  <2>3. CASE j # Len(list) + 1
    <3>1. j \in 1 .. Len(list) /\ longer[j] = list[j]
      BY <1>3, <1>4, <2>3
    <3> QED
      BY <2>1, <3>1 DEF InOrder
  <2> QED
    BY <2>2, <2>3
<1>6. NoneAfter(longer, x.seq, x.game)
  <2> SUFFICES ASSUME NEW i \in 1 .. Len(longer)
               PROVE  ~ Before(x.seq, x.game, longer[i].seq, longer[i].game)
    BY DEF NoneAfter
  <2>1. CASE i = Len(list) + 1
    BY <1>1, <1>4, <2>1 DEF Before
  <2>2. CASE i # Len(list) + 1
    <3>1. i \in 1 .. Len(list) /\ longer[i] = list[i]
      BY <1>3, <1>4, <2>2
    <3> QED
      BY <1>1, <1>2, <3>1 DEF AllBefore, Before
  <2> QED
    BY <2>1, <2>2
<1> QED
  BY <1>5, <1>6 DEF longer

\* What is not after a game is before every later one.
LEMMA LaterGame ==
    ASSUME NEW list \in Seq(Stat), NEW s \in Nat, NEW g \in Nat,
           NEW t \in Nat, NEW h \in Nat,
           NoneAfter(list, s, g), Before(s, g, t, h)
    PROVE  AllBefore(list, t, h) /\ NoneAfter(list, t, h)
<1>1. \A i \in 1 .. Len(list) : list[i].seq \in Nat /\ list[i].game \in Nat
  <2> TAKE i \in 1 .. Len(list)
  <2>1. list[i] \in Stat
    OBVIOUS
  <2> QED
    BY <2>1 DEF Stat
<1> QED
  BY <1>1 DEF AllBefore, NoneAfter, Before

\* Robots scored for game g of sequence s, all of whose results are earlier.
LEMMA SetStatsInOrder ==
    ASSUME NEW stats \in [Robots -> Seq(Stat)], NEW who, NEW x \in Stat,
           \A r \in Robots : InOrder(stats[r]) /\ NoneAfter(stats[r], x.seq, x.game),
           \A r \in Robots : r \in who => AllBefore(stats[r], x.seq, x.game)
    PROVE  \A r \in Robots : /\ InOrder(SetStats(stats, who, x)[r])
                             /\ NoneAfter(SetStats(stats, who, x)[r], x.seq, x.game)
<1> TAKE r \in Robots
<1>1. CASE r \in who
  <2>1. SetStats(stats, who, x)[r] = Append(stats[r], x)
    BY <1>1 DEF SetStats
  <2> QED
    BY <1>1, <2>1, AppendInOrder
<1>2. CASE r \notin who
  BY <1>2 DEF SetStats
<1> QED
  BY <1>1, <1>2

\* end_game scores each robot once.
LEMMA FinishOrdered ==
    ASSUME NEW l, Agree(l), NEW s \in Nat, NEW g \in Nat, Ordered(l, s, g)
    PROVE  Ordered(Finish(l, s, g), s, g)
<1> DEFINE who == all_robots_in_sequence \cap (l.alive \cup l.unset)
           x   == StatOf(s, g, 0, l.left, TRUE)
<1>1. l \in Lists /\ l.stats \in [Robots -> Seq(Stat)] /\ l.left \in Int /\ 0 \in Int
  BY DEF Agree, Lists
<1>2. x \in Stat
  <2>1. TRUE \in BOOLEAN
    OBVIOUS
  <2> QED
    BY <1>1, <2>1, StatOfType, Zenon
<1>3. x.seq = s /\ x.game = g
  BY DEF StatOf
<1>4. \A r \in Robots : r \in who => AllBefore(l.stats[r], s, g)
  BY DEF Agree, Ordered
<1>5. Finish(l, s, g).on = {} /\ Finish(l, s, g).stats = SetStats(l.stats, who, x)
  BY DEF Finish
<1> HIDE DEF who, x
<1>6. \A r \in Robots : /\ InOrder(SetStats(l.stats, who, x)[r])
                        /\ NoneAfter(SetStats(l.stats, who, x)[r], s, g)
  BY <1>1, <1>2, <1>3, <1>4, SetStatsInOrder DEF Ordered
<1> QED
  BY <1>5, <1>6 DEF Ordered

\* update_robots scores each robot that dies once, and takes it off the arena.
LEMMA UpdateOrdered ==
    ASSUME ArenaInv, ResultsInOrder, state = "GAME_IN_PROGRESS", NEW now \in Nat,
           NEW dying \in SUBSET (alive \cap on_arena)
    PROVE  Ordered(Update(dying, now), sequence_nr, game_nr)
<1> DEFINE killed == Cardinality(on_arena \ (alive \ dying))
           left   == robots_left - killed
           dead   == all_robots_in_sequence \cap (dead_but_stats_not_set \cup dying)
           scored == IF killed > 0 THEN dead ELSE {}
           x      == StatOf(sequence_nr, game_nr, left, killed, FALSE)
<1>1. /\ on_arena = alive \cup dead_but_stats_not_set
      /\ alive \cap dead_but_stats_not_set = {}
  BY DEF ArenaInv, RobotsAccounted
<1>2. sequence_nr \in Nat /\ game_nr \in Nat /\ killed \in Int /\ left \in Int
  <2>1. on_arena \ (alive \ dying) \in SUBSET Robots
    BY DEF ArenaInv, TypeOK
  <2>2. killed \in Int
    BY <2>1, RobotSetsFinite
  <2> QED
    BY <2>2 DEF ArenaInv, TypeOK
<1>3. /\ Update(dying, now).on = on_arena \cap (alive \ dying)
      /\ Update(dying, now).stats = SetStats(statistics, scored, x)
  BY DEF Update
<1>4. scored \subseteq on_arena /\ scored \cap (alive \ dying) = {}
  BY <1>1
<1> HIDE DEF killed, left, scored
<1>5. x \in Stat
  <2>1. FALSE \in BOOLEAN
    OBVIOUS
  <2> QED
    BY <1>2, <2>1, StatOfType, Zenon
<1>6. x.seq = sequence_nr /\ x.game = game_nr
  BY DEF StatOf
<1> HIDE DEF x
<1>7. statistics \in [Robots -> Seq(Stat)]
  BY DEF ArenaInv, TypeOK
<1>8. \A r \in Robots : /\ InOrder(SetStats(statistics, scored, x)[r])
                        /\ NoneAfter(SetStats(statistics, scored, x)[r],
                                     sequence_nr, game_nr)
  <2>1. \A r \in Robots : r \in scored => AllBefore(statistics[r], x.seq, x.game)
    BY <1>4, <1>6 DEF ResultsInOrder
  <2>2. \A r \in Robots : InOrder(statistics[r]) /\ NoneAfter(statistics[r], x.seq, x.game)
    BY <1>6 DEF ResultsInOrder
  <2> QED
    BY <1>5, <1>6, <1>7, <2>1, <2>2, SetStatsInOrder
<1>9. ASSUME NEW r \in Robots, r \in on_arena \cap (alive \ dying)
      PROVE  AllBefore(SetStats(statistics, scored, x)[r], sequence_nr, game_nr)
  BY <1>4, <1>9 DEF SetStats, ResultsInOrder
<1> QED
  BY <1>3, <1>8, <1>9 DEF Ordered

\* start_game on an empty arena keeps the results; a new game is a later one.
LEMMA StartGameOrdered ==
    ASSUME TypeOK, NEW l, Empty(l), Ordered(l, sequence_nr, game_nr), StartGame(l),
           sequence_nr' = sequence_nr, SetUpFails
    PROVE  ResultsInOrder' /\ SetUpFails'
<1>1. l.on = {} /\ l.stats \in [Robots -> Seq(Stat)]
  BY DEF Empty, Lists
<1>2. sequence_nr \in Nat /\ game_nr \in Nat
  BY DEF TypeOK
<1>3. CASE PostponeGame(l)
  BY <1>1, <1>3 DEF PostponeGame, Become, ResultsInOrder, Ordered, SetUpFails
<1>4. CASE RejectArena(l)
  <2>1. on_arena' = {} /\ statistics' = l.stats
    <3>1. l \in Lists
      BY DEF Empty
    <3> QED
      BY <1>1, <1>4, <3>1 DEF RejectArena, Become, Lists
  <2> QED
    BY <1>4, <2>1 DEF RejectArena, ResultsInOrder, Ordered, SetUpFails
<1>5. CASE FailPlacement(l)
  <2>1. statistics' = l.stats
    <3>1. PICK placed \in SUBSET all_robots_in_sequence : Become(Placed(l, placed))
      BY <1>5 DEF FailPlacement
    <3>2. l \in Lists
      BY DEF Empty
    <3> QED
      BY <3>1, <3>2 DEF Placed, Become, Lists
  <2> QED
    BY <1>5, <2>1 DEF FailPlacement, ResultsInOrder, Ordered, SetUpFails
<1>6. CASE BeginGame(l)
  <2>1. statistics' = l.stats
    <3>1. l \in Lists
      BY DEF Empty
    <3> QED
      BY <1>6, <3>1 DEF BeginGame, Placed, Become, Lists
  <2>2. game_nr' = game_nr + 1 /\ state' = "GAME_IN_PROGRESS"
    BY <1>6 DEF BeginGame
  <2>3. Before(sequence_nr, game_nr, sequence_nr, game_nr + 1) /\ game_nr + 1 \in Nat
    BY <1>2 DEF Before
  <2>4. \A r \in Robots : /\ AllBefore(l.stats[r], sequence_nr, game_nr + 1)
                          /\ NoneAfter(l.stats[r], sequence_nr, game_nr + 1)
    BY <1>1, <1>2, <2>3, LaterGame DEF Ordered
  <2> QED
    BY <2>1, <2>2, <2>4 DEF ResultsInOrder, Ordered, SetUpFails
<1> QED
  BY <1>3, <1>4, <1>5, <1>6 DEF StartGame

\* end_game keeps the results in order.
LEMMA EndGameOrdered ==
    ASSUME TypeOK, NEW l, Agree(l), Ordered(l, sequence_nr, game_nr), EndGame(l),
           SetUpFails
    PROVE  ResultsInOrder' /\ SetUpFails'
<1> DEFINE f == Finish(l, sequence_nr, game_nr)
<1>1. sequence_nr \in Nat /\ game_nr \in Nat
  BY DEF TypeOK
<1>2. Empty(f) /\ Ordered(f, sequence_nr, game_nr)
  BY <1>1, FinishEmpties, FinishOrdered
<1>3. sequence_nr' = sequence_nr
  BY DEF EndGame
<1>4. \/ game_nr = GamesPerSequence /\ EndSequence(f) /\ game_nr' = game_nr
      \/ game_nr # GamesPerSequence /\ StartGame(f)
  BY DEF EndGame
<1> HIDE DEF f
<1>5. CASE EndSequence(f) /\ game_nr' = game_nr
  BY <1>2, <1>3, <1>5 DEF EndSequence, Become, Empty, ResultsInOrder, Ordered, SetUpFails
<1>6. CASE StartGame(f)
  BY <1>2, <1>3, <1>6, StartGameOrdered
<1> QED
  BY <1>4, <1>5, <1>6

-----------------------------------------------------------------------------
(***************************************************************************)
(* The theorem.  In debug mode End Game can score robots that a failed     *)
(* start_game left alive under the number of the game before; elsewhere    *)
(* no button reaches that state.                                           *)
(***************************************************************************)
Disciplined == GameMode # "DEBUG" \/ ~ PlacementMayFail

\* The lists a button or a tick hands to end_game.
LEMMA CurrentOrdered ==
    ASSUME ResultsInOrder, state # "BEFORE_GAME_START", NEW now
    PROVE  Ordered(Current(now), sequence_nr, game_nr)
BY DEF ResultsInOrder, Ordered, Current

\* The results are in order in the beginning ...
LEMMA ResultsInvInit == Init => ResultsInv
<1> SUFFICES ASSUME Init PROVE ResultsInv
  OBVIOUS
<1>1. \A r \in Robots : statistics[r] = <<>>
  BY DEF Init
<1>2. ResultsInOrder
  BY <1>1 DEF Init, ResultsInOrder, InOrder, NoneAfter, AllBefore
<1> QED
  BY <1>2, ArenaInvInit DEF ResultsInv, SetUpFails, Init

\* A new tournament has no results.
LEMMA StartTournamentOrdered ==
    ASSUME StartTournament
    PROVE  ResultsInOrder' /\ SetUpFails'
<1>1. \A r \in Robots : statistics'[r] = <<>>
  BY DEF StartTournament
<1> QED
  BY <1>1 DEF StartTournament, StartSequence, ResultsInOrder, InOrder, NoneAfter,
              AllBefore, SetUpFails

\* The results and everything they are ordered by are left alone.
LEMMA QuietStep ==
    ASSUME ResultsInOrder, SetUpFails, UNCHANGED <<statistics, progress>>,
           on_arena' \subseteq on_arena,
           state' = "BEFORE_GAME_START" <=> state = "BEFORE_GAME_START"
    PROVE  ResultsInOrder' /\ SetUpFails'
BY DEF ResultsInOrder, SetUpFails, progress

\* ... and after every callback.
LEMMA ResultsInvStep ==
    ASSUME Disciplined, ResultsInv, [Next]_vars
    PROVE  ResultsInv'
<1> USE DEF ResultsInv
<1>0. ArenaInv' /\ TypeOK /\ GamesRemain /\ RobotsAccounted
  BY ArenaInvStep DEF ArenaInv
<1>n. sequence_nr \in Nat /\ game_nr \in Nat /\ statistics \in [Robots -> Seq(Stat)]
      /\ sequence_nr \in 0 .. SequencesInTournament
  BY <1>0 DEF TypeOK
<1>1. CASE UNCHANGED vars
  BY <1>0, <1>1, QuietStep DEF vars, progress
<1>2. CASE TickNotStarted \/ ClickNewTournament
  BY <1>0, <1>2, StartTournamentOrdered DEF TickNotStarted, ClickNewTournament
<1>3. CASE TickFinished \/ TickStarting \/ TickShuttingDown \/ TickImpossible
  BY <1>0, <1>3, QuietStep
  DEF TickFinished, TickStarting, TickShuttingDown, TickImpossible, robotLists
<1>4. CASE TickFollowUp
  <2>1. PICK now \in Clock : PostponeGame(Current(now)) \/ BeginGame(Current(now))
    BY <1>4 DEF TickFollowUp
  <2>2. now \in Nat /\ StartGame(Current(now)) /\ state = "STARTING_ROBOTS"
    BY <1>0, <1>4, <2>1, ClockType DEF StartGame, TickFollowUp
  <2>3. Empty(Current(now))
    <3>1. Agree(Current(now))
      BY <1>0, <2>2, CurrentAgrees
    <3> QED
      BY <1>0, <2>2, <3>1 DEF RobotsAccounted, Playing, Agree, Empty, Current
  <2>4. Ordered(Current(now), sequence_nr, game_nr)
    BY <2>2, CurrentOrdered
  <2> QED
    BY <1>0, <1>4, <2>2, <2>3, <2>4, StartGameOrdered DEF TickFollowUp
<1>5. CASE TickFollowUpFails
  <2>1. PICK now \in Clock :
           \/ WindUp(Current(now))
           \/ \E placed \in SUBSET all_robots_in_sequence :
                 WindUp(Placed(Current(now), placed))
    BY <1>5 DEF TickFollowUpFails
  <2>2. now \in Nat /\ state = "STARTING_ROBOTS" /\ game_nr = 0
    BY <1>0, <1>5, ClockType DEF TickFollowUpFails, GamesRemain
  <2>3. Agree(Current(now)) /\ Empty(Current(now))
    <3>1. Agree(Current(now))
      BY <1>0, <2>2, CurrentAgrees
    <3> QED
      BY <1>0, <2>2, <3>1 DEF RobotsAccounted, Playing, Agree, Empty, Current
  <2>4. PICK l : Agree(l) /\ WindUp(l) /\ l.stats = statistics
    <3>1. Current(now).stats = statistics
      BY DEF Current
    <3>2. \A placed : Placed(Current(now), placed).stats = statistics
      BY DEF Current, Placed
    <3> QED
      BY <1>0, <2>1, <2>3, <3>1, <3>2, PlacedAgrees
  <2>5. Before(sequence_nr, game_nr, SequencesInTournament, GamesPerSequence)
    BY <1>n, <2>2, SizeAssumption DEF Before
  <2>6. Ordered(l, SequencesInTournament, GamesPerSequence)
    <3>1. SequencesInTournament \in Nat /\ GamesPerSequence \in Nat
      BY SizeAssumption
    <3> QED
      BY <1>n, <2>4, <2>5, <3>1, LaterGame DEF Ordered, ResultsInOrder
  <2>7. Ordered(Finish(l, SequencesInTournament, GamesPerSequence),
                SequencesInTournament, GamesPerSequence)
    BY <2>4, <2>6, FinishOrdered, SizeAssumption
  <2>8. Finish(l, SequencesInTournament, GamesPerSequence).on = {}
    BY DEF Finish
  <2>9. /\ statistics' = Finish(l, SequencesInTournament, GamesPerSequence).stats
        /\ on_arena' = {}
        /\ sequence_nr' = SequencesInTournament
        /\ game_nr' = GamesPerSequence
        /\ state' = "SHUTTING_DOWN_ROBOTS"
    BY <2>4, <2>8 DEF WindUp, Become
  <2> QED
    BY <1>0, <2>7, <2>9 DEF Ordered, ResultsInOrder, SetUpFails
<1>6. CASE TickGame
  <2>1. PICK now \in Clock, dying \in SUBSET (alive \cap on_arena) :
           \/ \E stopped : Become(CheckRobots(Update(dying, now), stopped))
           \/ Become(Update(dying, now))
    BY <1>6 DEF TickGame
  <2>2. now \in Nat /\ state = "GAME_IN_PROGRESS"
    BY <1>0, <1>6, ClockType DEF TickGame
  <2>3. Ordered(Update(dying, now), sequence_nr, game_nr)
    BY <2>2, UpdateOrdered
  <2>4. statistics' = Update(dying, now).stats /\ on_arena' = Update(dying, now).on
    <3>1. Update(dying, now) \in Lists
      BY <1>0, <2>2, UpdateAgrees DEF Agree
    <3> QED
      BY <2>1, <3>1 DEF Become, CheckRobots, Lists
  <2>5. sequence_nr' = sequence_nr /\ game_nr' = game_nr /\ state' # "BEFORE_GAME_START"
    BY <1>6, <2>2 DEF TickGame, progress
  <2> QED
    BY <1>0, <2>3, <2>4, <2>5 DEF Ordered, ResultsInOrder, SetUpFails
<1>7. CASE TickGameOver
  <2>1. PICK now \in Clock, dying \in SUBSET (alive \cap on_arena) :
           EndGame(Update(dying, now))
    BY <1>7 DEF TickGameOver
  <2>2. now \in Nat /\ state = "GAME_IN_PROGRESS"
    BY <1>0, <1>7, ClockType DEF TickGameOver
  <2>3. Agree(Update(dying, now)) /\ Ordered(Update(dying, now), sequence_nr, game_nr)
    BY <1>0, <2>2, UpdateAgrees, UpdateOrdered
  <2> QED
    BY <1>0, <2>1, <2>3, EndGameOrdered
<1>8. CASE TickPausing
  <2>1. /\ total_time \in Nat /\ StartGame(Current(total_time))
        /\ state = "PAUSING_BETWEEN_GAMES"
    BY <1>0, <1>8 DEF TickPausing, TypeOK
  <2>2. Empty(Current(total_time))
    <3>1. Agree(Current(total_time))
      BY <1>0, <2>1, CurrentAgrees
    <3> QED
      BY <1>0, <2>1, <3>1 DEF RobotsAccounted, Playing, Agree, Empty, Current
  <2>3. Ordered(Current(total_time), sequence_nr, game_nr)
    BY <2>1, CurrentOrdered
  <2> QED
    BY <1>0, <1>8, <2>1, <2>2, <2>3, StartGameOrdered DEF TickPausing
<1>9. CASE TickSequenceOver
  <2>1. CASE sequence_nr = SequencesInTournament
    BY <1>0, <1>9, <2>1, QuietStep DEF TickSequenceOver
  <2>2. CASE sequence_nr # SequencesInTournament
    <3>1. /\ sequence_nr' = sequence_nr + 1 /\ game_nr' = 0
          /\ state' = "STARTING_ROBOTS" /\ statistics' = statistics
      BY <1>9, <2>2 DEF TickSequenceOver, StartSequence
    <3>2. Before(sequence_nr, game_nr, sequence_nr + 1, 0)
      BY <1>n DEF Before
    <3>3. \A r \in Robots : /\ AllBefore(statistics[r], sequence_nr + 1, 0)
                            /\ NoneAfter(statistics[r], sequence_nr + 1, 0)
      <4>1. sequence_nr + 1 \in Nat /\ 0 \in Nat
        BY <1>n
      <4> QED
        BY <1>n, <3>2, <4>1, LaterGame DEF ResultsInOrder
    <3> QED
      BY <1>0, <3>1, <3>3 DEF ResultsInOrder, SetUpFails
  <2> QED
    BY <2>1, <2>2
<1>10. CASE ClickPause \/ ClickStep \/ ClickKillRobot
  <2>1. UNCHANGED <<statistics, progress, on_arena>>
    BY <1>10 DEF ClickPause, ClickStep, ClickKillRobot, robotLists
  <2>2. state' = "BEFORE_GAME_START" <=> state = "BEFORE_GAME_START"
    BY <1>10 DEF ClickPause, ClickStep, ClickKillRobot
  <2> QED
    BY <1>0, <2>1, <2>2, QuietStep
<1>11. CASE ClickEndGame
  <2>1. /\ EndGame(Current(total_time)) /\ total_time \in Nat
        /\ state # "FINISHED" /\ state # "BEFORE_GAME_START"
    BY <1>0, <1>11 DEF ClickEndGame, TypeOK, Disciplined, SetUpFails
  <2>2. Agree(Current(total_time)) /\ Ordered(Current(total_time), sequence_nr, game_nr)
    BY <1>0, <2>1, CurrentAgrees, CurrentOrdered
  <2> QED
    BY <1>0, <2>1, <2>2, EndGameOrdered
<1>12. CASE ClickEndTournament
  BY <1>0, <1>12, QuietStep DEF ClickEndTournament
<1> QED
  BY <1>1, <1>2, <1>3, <1>4, <1>5, <1>6, <1>7, <1>8, <1>9, <1>10, <1>11, <1>12
  DEF Next, Tick, Button

\* Every robot has at most one result per game and its results are in the order
\* of the schedule, whatever update_robots, end_game and the buttons do, unless
\* placements fail in debug mode.
THEOREM ResultsOrdered ==
    ASSUME Disciplined
    PROVE  Spec => []ResultsInOrder
<1>1. ResultsInv /\ [Next]_vars => ResultsInv'
  BY ResultsInvStep
<1>2. ResultsInv => ResultsInOrder
  BY DEF ResultsInv
<1> QED
  BY <1>1, <1>2, ResultsInvInit, PTL DEF Spec
-----------------------------------------------------------------------------
(***************************************************************************)
(* Nobody waits for a result longer than until the next tick of the game.  *)
(***************************************************************************)

\* A robot that is scored has one result more, the others have as many as before.
LEMMA SetStatsLonger ==
    ASSUME NEW stats \in [Robots -> Seq(Stat)], NEW who, NEW x \in Stat, NEW r \in Robots
    PROVE  /\ Len(SetStats(stats, who, x)[r]) >= Len(stats[r])
           /\ r \in who => Len(SetStats(stats, who, x)[r]) > Len(stats[r])
<1>1. stats[r] \in Seq(Stat) /\ Len(stats[r]) \in Nat
  OBVIOUS
<1>2. CASE r \in who
  <2>1. SetStats(stats, who, x)[r] = Append(stats[r], x)
    BY <1>2 DEF SetStats
  <2>2. Len(Append(stats[r], x)) = Len(stats[r]) + 1
    BY <1>1
  <2> QED
    BY <1>1, <2>1, <2>2
<1>3. CASE r \notin who
  <2>1. SetStats(stats, who, x)[r] = stats[r]
    BY <1>3 DEF SetStats
  <2> QED
    BY <1>1, <1>3, <2>1
<1> QED
  BY <1>2, <1>3

\* end_game takes no result away.
LEMMA EndGameLonger ==
    ASSUME TypeOK, NEW l, Agree(l), EndGame(l), NEW r \in Robots
    PROVE  Len(statistics'[r]) >= Len(l.stats[r])
<1> DEFINE f == Finish(l, sequence_nr, game_nr)
           x == StatOf(sequence_nr, game_nr, 0, l.left, TRUE)
<1>1. sequence_nr \in Nat /\ game_nr \in Nat
  BY DEF TypeOK
<1>2. Empty(f)
  BY <1>1, FinishEmpties
<1>3. l.stats \in [Robots -> Seq(Stat)] /\ l.left \in Int
  BY DEF Agree, Lists
<1>4. x \in Stat
  <2>1. 0 \in Int /\ TRUE \in BOOLEAN
    OBVIOUS
  <2> QED
    BY <1>1, <1>3, <2>1, StatOfType, Zenon
<1>5. PICK who : f.stats = SetStats(l.stats, who, x)
  BY DEF Finish
<1>6. EndSequence(f) \/ StartGame(f)
  BY DEF EndGame
<1> HIDE DEF f, x
<1>7. statistics' = f.stats
  <2>1. CASE EndSequence(f)
    BY <2>1 DEF EndSequence, Become
  <2>2. CASE StartGame(f)
    BY <1>2, <2>2, StartGamePlays
  <2> QED
    BY <1>6, <2>1, <2>2
<1> QED
  BY <1>3, <1>4, <1>5, <1>7, SetStatsLonger

\* The scoring in a tick of the game reaches every robot that waits for it.
LEMMA TickScoresDead ==
    ASSUME ArenaInv, server = "up", TickGame \/ TickGameOver,
           NEW r \in dead_but_stats_not_set
    PROVE  NewResult(r)
<1>1. TypeOK /\ RobotsAccounted /\ state = "GAME_IN_PROGRESS" /\ r \in Robots
  BY DEF ArenaInv, TickGame, TickGameOver, TypeOK
<1>2. PICK now \in Clock, dying \in SUBSET (alive \cap on_arena) :
        \/ \E stopped : Become(CheckRobots(Update(dying, now), stopped))
        \/ Become(Update(dying, now))
        \/ EndGame(Update(dying, now))
  BY DEF TickGame, TickGameOver
<1> DEFINE u == Update(dying, now)
<1>3. now \in Nat
  BY <1>1, <1>2, ClockType
<1>4. Agree(u)
  BY <1>1, <1>3, UpdateAgrees
<1>5. PICK group \in SUBSET on_arena : dead_but_stats_not_set \subseteq group /\ Leaves(group, u)
  BY <1>1, <1>3, UpdateScores
<1> DEFINE x == StatOf(sequence_nr, game_nr, Cardinality(on_arena \ group),
                       Cardinality(group), FALSE)
<1>6. u.stats = SetStats(statistics, group, x)
  BY <1>5 DEF Leaves
<1>7. x \in Stat
  <2>1. on_arena \ group \in SUBSET Robots /\ group \in SUBSET Robots
    BY <1>1, <1>5 DEF TypeOK
  <2>2. Cardinality(on_arena \ group) \in Int /\ Cardinality(group) \in Int
    BY <2>1, RobotSetsFinite
  <2>3. FALSE \in BOOLEAN /\ sequence_nr \in Nat /\ game_nr \in Nat
    BY <1>1 DEF TypeOK
  <2> QED
    BY <2>2, <2>3, StatOfType, Zenon
<1> HIDE DEF x
<1>8. Len(u.stats[r]) > Len(statistics[r])
  BY <1>1, <1>5, <1>6, <1>7, SetStatsLonger DEF TypeOK
<1> HIDE DEF u
<1>9. Len(statistics'[r]) >= Len(u.stats[r])
  <2>1. CASE EndGame(u)
    BY <1>1, <1>4, <2>1, EndGameLonger
  <2>2. CASE ~ EndGame(u)
    <3>1. u \in Lists
      BY <1>4 DEF Agree
    <3>2. statistics' = u.stats
      BY <1>2, <2>2, <3>1 DEF Become, CheckRobots, Lists, u
    <3>3. u.stats[r] \in Seq(Stat)
      BY <1>1, <3>1 DEF Lists
    <3>4. Len(u.stats[r]) \in Nat
      BY <3>3
    <3> QED
      BY <3>2, <3>4
  <2> QED
    BY <2>1, <2>2
<1>10. Len(statistics[r]) \in Nat /\ Len(u.stats[r]) \in Nat
  <2>1. statistics[r] \in Seq(Stat) /\ u.stats[r] \in Seq(Stat)
    BY <1>1, <1>4 DEF TypeOK, Agree, Lists
  <2> QED
    BY <2>1
<1>11. Len(statistics'[r]) \in Nat
  <2>1. TypeOK'
    BY ArenaInvStep, <1>1 DEF Next, Tick, ArenaInv
  <2>2. statistics'[r] \in Seq(Stat)
    BY <1>1, <2>1 DEF TypeOK
  <2> QED
    BY <2>2
<1> QED
  BY <1>8, <1>9, <1>10, <1>11 DEF NewResult

\* A robot that a button killed or check_robots stopped after the scoring of its
\* tick is scored in the very next tick of the game, in every game mode and
\* whatever else that tick does.
THEOREM DeadScoredAlways == Spec => DeadScoredNextTick
<1>1. ArenaInv /\ server = "up" /\ (TickGame \/ TickGameOver)
        => \A r \in dead_but_stats_not_set : NewResult(r)
  BY TickScoresDead
<1> QED
  BY <1>1, ArenaInvariant, PTL DEF DeadScoredNextTick
-----------------------------------------------------------------------------
(***************************************************************************)
(* The points.  set_stats computes them from robots_left and the number of *)
(* robots killed at once; the rule speaks of who outlived whom.            *)
(***************************************************************************)

\* Scored and ResultOf, for any results.
HasResult(list, s, g) == \E i \in 1 .. Len(list) : list[i].seq = s /\ list[i].game = g

ScoredIn(stats, s, g) == {r \in Robots : HasResult(stats[r], s, g)}

ResultIn(list, s, g) ==
    list[CHOOSE i \in 1 .. Len(list) : list[i].seq = s /\ list[i].game = g]

ResultsIn(stats, s, g) == [r \in ScoredIn(stats, s, g) |-> ResultIn(stats[r], s, g)]

\* The robots of group that robot r outlived, and those it is tied with.
Outlived(group, result, r) == {q \in group : result[q].position > result[r].position}
TiedWith(group, result, r) == {q \in group \ {r} : result[q].position = result[r].position}

\* The points of group are those of the rule.
Fair(group, result) ==
    \A r \in group :
       result[r].points2 = 2 + 2 * Cardinality(Outlived(group, result, r))
         + (IF result[r].timeout THEN 0 ELSE Cardinality(TiedWith(group, result, r)))

\* The results new are the results old of the robots in gone, all behind place
\* n + 1, and that place for each robot in group, when n robots stay.
Joined(gone, old, group, new, n, timeout) ==
    /\ gone \cap group = {}
    /\ Cardinality(gone) + Cardinality(group) + n = RobotsPerGame
    /\ old \in [gone -> Stat]
    /\ new \in [gone \cup group -> Stat]
    /\ \A q \in gone : new[q] = old[q] /\ old[q].position > n + 1
    /\ \E s, g : \A q \in group : new[q] = StatOf(s, g, n, Cardinality(group), timeout)

\* Robots that leave a game together, when n others stay, get a fair result, and
\* the results of those who left before stay fair.
LEMMA GroupFair ==
    ASSUME NEW gone \in SUBSET Robots, NEW group \in SUBSET Robots, NEW n \in Nat,
           NEW timeout \in BOOLEAN, NEW old, NEW new,
           Joined(gone, old, group, new, n, timeout), Fair(gone, old)
    PROVE  Fair(gone \cup group, new)
<1> DEFINE all == gone \cup group
<1>1. /\ IsFiniteSet(gone) /\ Cardinality(gone) \in Nat
      /\ IsFiniteSet(group) /\ Cardinality(group) \in Nat
  BY RobotSetsFinite
<1> USE DEF Joined
<1>2. \A q \in group : /\ new[q].position = n + 1
                       /\ new[q].timeout = timeout
                       /\ new[q].points2 = 2 * (RobotsPerGame - n)
                            - (IF timeout THEN 2 ELSE 1) * (Cardinality(group) - 1)
  BY DEF StatOf
<1>3. \A q \in gone : new[q].position \in Int /\ new[q].position > n + 1
  BY DEF Stat
<1>4. SUFFICES ASSUME NEW r \in all
      PROVE  new[r].points2 = 2 + 2 * Cardinality(Outlived(all, new, r))
               + (IF new[r].timeout THEN 0 ELSE Cardinality(TiedWith(all, new, r)))
  BY DEF Fair
<1>5. CASE r \in gone
  <2>1. Outlived(all, new, r) = Outlived(gone, old, r)
    BY <1>2, <1>3, <1>5 DEF Outlived
  <2>2. TiedWith(all, new, r) = TiedWith(gone, old, r)
    BY <1>2, <1>3, <1>5 DEF TiedWith
  <2>3. new[r] = old[r]
    BY <1>5
  <2> QED
    BY <1>5, <2>1, <2>2, <2>3 DEF Fair
<1>6. CASE r \in group
  <2>1. Outlived(all, new, r) = gone
    BY <1>2, <1>3, <1>6 DEF Outlived
  <2>2. TiedWith(all, new, r) = group \ {r}
    BY <1>2, <1>3, <1>6 DEF TiedWith
  <2>3. Cardinality(group \ {r}) = Cardinality(group) - 1
    BY <1>1, <1>6, FS_RemoveElement
  <2>4. Cardinality(gone) = RobotsPerGame - n - Cardinality(group) /\ RobotsPerGame \in Int
    BY <1>1, SizeAssumption
  <2>5. /\ new[r].timeout = timeout
        /\ new[r].points2 = 2 * (RobotsPerGame - n)
             - (IF timeout THEN 2 ELSE 1) * (Cardinality(group) - 1)
    BY <1>2, <1>6
  <2>6. CASE timeout
    BY <1>1, <2>1, <2>4, <2>5, <2>6
  <2>7. CASE ~ timeout
    <3>1. (IF new[r].timeout THEN 0 ELSE Cardinality(TiedWith(all, new, r)))
             = Cardinality(group) - 1
      BY <2>2, <2>3, <2>5, <2>7, Zenon
    <3>2. new[r].points2 = 2 * (RobotsPerGame - n) - 1 * (Cardinality(group) - 1)
      BY <2>5, <2>7, Zenon
    <3>3. 2 * (RobotsPerGame - n) - 1 * (Cardinality(group) - 1)
             = 2 + 2 * Cardinality(gone) + (Cardinality(group) - 1)
      BY <1>1, <2>4
    <3> QED
      BY <2>1, <3>1, <3>2, <3>3, Zenon
  <2> QED
    BY <2>6, <2>7
<1> QED
  BY <1>5, <1>6

\* In a list without repetitions the result of a game is where it is found.
LEMMA ResultIsFound ==
    ASSUME NEW list \in Seq(Stat), InOrder(list), NEW s, NEW g,
           NEW i \in 1 .. Len(list), list[i].seq = s, list[i].game = g
    PROVE  ResultIn(list, s, g) = list[i]
<1> DEFINE P(k) == list[k].seq = s /\ list[k].game = g
           j == CHOOSE k \in 1 .. Len(list) : P(k)
<1>1. j \in 1 .. Len(list) /\ P(j)
  OBVIOUS
<1>2. s \in Nat /\ g \in Nat
  <2>1. list[i] \in Stat
    OBVIOUS
  <2> QED
    BY <2>1 DEF Stat
<1>3. ResultIn(list, s, g) = list[j]
  BY DEF ResultIn
<1> HIDE DEF j
<1>4. ~ (i < j) /\ ~ (j < i)
  BY <1>1, <1>2 DEF InOrder, Before
<1> QED
  BY <1>1, <1>3, <1>4

\* Another result at the end of a list leaves the results before it alone.
LEMMA AppendResult ==
    ASSUME NEW list \in Seq(Stat), NEW x \in Stat, InOrder(list), InOrder(Append(list, x)),
           NEW s, NEW g
    PROVE  /\ HasResult(Append(list, x), s, g)
                <=> HasResult(list, s, g) \/ (x.seq = s /\ x.game = g)
           /\ HasResult(list, s, g)
                => ResultIn(Append(list, x), s, g) = ResultIn(list, s, g)
           /\ x.seq = s /\ x.game = g => ResultIn(Append(list, x), s, g) = x
<1> DEFINE longer == Append(list, x)
<1>1. /\ longer \in Seq(Stat) /\ Len(longer) = Len(list) + 1 /\ Len(list) \in Nat
      /\ longer[Len(list) + 1] = x
      /\ \A i \in 1 .. Len(list) : longer[i] = list[i]
  OBVIOUS
<1> HIDE DEF longer
<1>2. HasResult(longer, s, g) <=> HasResult(list, s, g) \/ (x.seq = s /\ x.game = g)
  <2>1. ASSUME HasResult(longer, s, g)
        PROVE  HasResult(list, s, g) \/ (x.seq = s /\ x.game = g)
    <3>1. PICK i \in 1 .. Len(longer) : longer[i].seq = s /\ longer[i].game = g
      BY <2>1 DEF HasResult
    <3>2. i \in 1 .. Len(list) \/ i = Len(list) + 1
      BY <1>1
    <3> QED
      BY <1>1, <3>1, <3>2 DEF HasResult
  <2>2. ASSUME HasResult(list, s, g) \/ (x.seq = s /\ x.game = g)
        PROVE  HasResult(longer, s, g)
    <3>1. Len(list) + 1 \in 1 .. Len(longer) /\ 1 .. Len(list) \subseteq 1 .. Len(longer)
      BY <1>1
    <3> QED
      BY <1>1, <2>2, <3>1 DEF HasResult
  <2> QED
    BY <2>1, <2>2
<1>3. ASSUME HasResult(list, s, g)
      PROVE  ResultIn(longer, s, g) = ResultIn(list, s, g)
  <2>1. PICK i \in 1 .. Len(list) : list[i].seq = s /\ list[i].game = g
    BY <1>3 DEF HasResult
  <2>2. i \in 1 .. Len(longer) /\ longer[i] = list[i]
    BY <1>1
  <2>3. ResultIn(list, s, g) = list[i]
    BY <2>1, ResultIsFound
  <2>4. InOrder(longer) /\ longer[i].seq = s /\ longer[i].game = g
    BY <2>1, <2>2 DEF longer
  <2>5. ResultIn(longer, s, g) = longer[i]
    BY <1>1, <2>2, <2>4, ResultIsFound
  <2> QED
    BY <2>2, <2>3, <2>5
<1>4. ASSUME x.seq = s, x.game = g
      PROVE  ResultIn(longer, s, g) = x
  <2>1. PICK i \in 1 .. Len(longer) : longer[i] = x
    BY <1>1
  <2>2. InOrder(longer)
    BY DEF longer
  <2>3. ResultIn(longer, s, g) = longer[i]
    BY <1>1, <1>4, <2>1, <2>2, ResultIsFound
  <2> QED
    BY <2>1, <2>3
<1> QED
  BY <1>2, <1>3, <1>4 DEF longer

\* A list in order with results only before a game has none for it.
LEMMA BeforeHasNone ==
    ASSUME NEW list \in Seq(Stat), NEW s \in Nat, NEW g \in Nat, AllBefore(list, s, g)
    PROVE  ~ HasResult(list, s, g)
BY DEF AllBefore, HasResult, Before

\* The results of the robots, wherever they are, are results.
LEMMA ResultsType ==
    ASSUME NEW stats \in [Robots -> Seq(Stat)], NEW s, NEW g
    PROVE  /\ ResultsIn(stats, s, g) \in [ScoredIn(stats, s, g) -> Stat]
           /\ ScoredIn(stats, s, g) \in SUBSET Robots
<1> SUFFICES ASSUME NEW r \in Robots, HasResult(stats[r], s, g)
             PROVE  ResultIn(stats[r], s, g) \in Stat
  BY DEF ResultsIn, ScoredIn
<1> DEFINE list == stats[r]
           j == CHOOSE k \in 1 .. Len(list) : list[k].seq = s /\ list[k].game = g
<1>1. list \in Seq(Stat)
  OBVIOUS
<1> HIDE DEF list
<1>2. j \in 1 .. Len(list)
  BY DEF HasResult, list
<1> HIDE DEF j
<1>3. list[j] \in Stat
  BY <1>1, <1>2
<1> QED
  BY <1>3 DEF ResultIn, j, list

\* All games have been scored by the rule, as far as they have been scored.
FairStats(stats) == \A s, g \in Nat : Fair(ScoredIn(stats, s, g), ResultsIn(stats, s, g))

\* With n robots of game g of sequence s still to be scored, all the others have
\* been, and every one of them for a place behind those n.
Behind(stats, s, g, n) ==
    /\ Cardinality(ScoredIn(stats, s, g)) + n = RobotsPerGame
    /\ \A r \in ScoredIn(stats, s, g) : ResultIn(stats[r], s, g).position > n

\* The step of the argument: the robots of group leave the game at once and n
\* robots stay.
LEMMA GroupScored ==
    ASSUME NEW stats \in [Robots -> Seq(Stat)], NEW group \in SUBSET Robots, group # {},
           NEW s \in Nat, NEW g \in Nat, NEW n \in Nat, NEW timeout \in BOOLEAN,
           \A r \in Robots : InOrder(stats[r]) /\ NoneAfter(stats[r], s, g),
           \A r \in group : AllBefore(stats[r], s, g),
           FairStats(stats), Behind(stats, s, g, Cardinality(group) + n)
    PROVE  LET new == SetStats(stats, group, StatOf(s, g, n, Cardinality(group), timeout))
           IN  FairStats(new) /\ Behind(new, s, g, n)
<1> DEFINE x == StatOf(s, g, n, Cardinality(group), timeout)
           new == SetStats(stats, group, x)
<1>1. IsFiniteSet(group) /\ Cardinality(group) \in Nat /\ Cardinality(group) # 0
  BY RobotSetsFinite, FS_EmptySet
<1>2. x \in Stat
  <2>1. n \in Int /\ Cardinality(group) \in Int
    BY <1>1
  <2> QED
    BY <2>1, StatOfType, Zenon
<1>3. x.seq = s /\ x.game = g /\ x.position = n + 1
  BY DEF StatOf
<1>4. new \in [Robots -> Seq(Stat)]
  BY <1>2, SetStatsType
<1>5. /\ \A r \in group : new[r] = Append(stats[r], x)
      /\ \A r \in Robots : r \notin group => new[r] = stats[r]
  BY DEF SetStats
<1>6. \A r \in Robots : InOrder(new[r])
  <2>1. \A r \in Robots : r \in group => AllBefore(stats[r], x.seq, x.game)
    BY <1>3
  <2>2. \A r \in Robots : InOrder(stats[r]) /\ NoneAfter(stats[r], x.seq, x.game)
    BY <1>3
  <2> HIDE DEF x
  <2> QED
    BY <1>2, <2>1, <2>2, SetStatsInOrder
<1> HIDE DEF x, new
<1>7. ASSUME NEW r \in Robots, NEW t, NEW h
      PROVE  /\ HasResult(new[r], t, h)
                  <=> HasResult(stats[r], t, h) \/ (r \in group /\ t = s /\ h = g)
             /\ HasResult(stats[r], t, h)
                  => ResultIn(new[r], t, h) = ResultIn(stats[r], t, h)
             /\ r \in group => ResultIn(new[r], s, g) = x
  <2>1. CASE r \in group
    <3>1. new[r] = Append(stats[r], x) /\ InOrder(new[r]) /\ InOrder(stats[r])
      BY <1>5, <1>6, <2>1
    <3>2. /\ HasResult(new[r], t, h) <=> HasResult(stats[r], t, h) \/ (x.seq = t /\ x.game = h)
          /\ HasResult(stats[r], t, h) => ResultIn(new[r], t, h) = ResultIn(stats[r], t, h)
      BY <1>2, <3>1, AppendResult
    <3>3. ResultIn(new[r], s, g) = x
      BY <1>2, <1>3, <3>1, AppendResult
    <3> QED
      BY <1>3, <2>1, <3>2, <3>3
  <2>2. CASE r \notin group
    BY <1>5, <2>2
  <2> QED
    BY <2>1, <2>2
<1> DEFINE gone == ScoredIn(stats, s, g)
           old == ResultsIn(stats, s, g)
<1>8. gone \cap group = {}
  BY BeforeHasNone DEF ScoredIn
<1>9. /\ gone \in SUBSET Robots /\ old \in [gone -> Stat]
      /\ IsFiniteSet(gone) /\ Cardinality(gone) \in Nat
  BY ResultsType, RobotSetsFinite
<1>10. ScoredIn(new, s, g) = gone \cup group
  BY <1>7 DEF ScoredIn
<1>11. ResultsIn(new, s, g) \in [gone \cup group -> Stat]
  BY <1>4, <1>10, ResultsType
<1>12. /\ \A q \in gone : ResultsIn(new, s, g)[q] = old[q]
       /\ \A q \in group : ResultsIn(new, s, g)[q] = x
  <2>1. \A q \in gone \cup group : ResultsIn(new, s, g)[q] = ResultIn(new[q], s, g)
    BY <1>10 DEF ResultsIn
  <2>2. \A q \in gone : old[q] = ResultIn(stats[q], s, g)
    BY DEF ResultsIn
  <2> QED
    BY <1>7, <2>1, <2>2 DEF ScoredIn
<1>13. \A q \in gone : old[q].position \in Int /\ old[q].position > Cardinality(group) + n
  <2>1. \A q \in gone : old[q] = ResultIn(stats[q], s, g)
    BY DEF ResultsIn
  <2>2. \A q \in gone : old[q] \in Stat
    BY <1>9
  <2>3. \A q \in gone : old[q].position \in Int
    BY <2>2 DEF Stat
  <2> QED
    BY <2>1, <2>3 DEF Behind
<1>14. Fair(ScoredIn(new, s, g), ResultsIn(new, s, g))
  <2>1. Fair(gone, old)
    BY DEF FairStats
  <2>2. Cardinality(gone) + Cardinality(group) + n = RobotsPerGame
    BY <1>1, <1>9 DEF Behind
  <2>3. \A q \in gone : ResultsIn(new, s, g)[q] = old[q] /\ old[q].position > n + 1
    BY <1>1, <1>12, <1>13
  <2>4. \A q \in group : ResultsIn(new, s, g)[q] = StatOf(s, g, n, Cardinality(group), timeout)
    BY <1>12 DEF x
  <2> DEFINE res == ResultsIn(new, s, g)
  <2> HIDE DEF gone, old, res
  <2>5. /\ res \in [gone \cup group -> Stat]
        /\ \A q \in gone : res[q] = old[q] /\ old[q].position > n + 1
        /\ \A q \in group : res[q] = StatOf(s, g, n, Cardinality(group), timeout)
    BY <1>11, <2>3, <2>4 DEF res
  <2>6. Fair(gone \cup group, res)
    <3>1. Joined(gone, old, group, res, n, timeout)
      BY <1>8, <1>9, <2>2, <2>5 DEF Joined
    <3> QED
      BY <1>9, <2>1, <3>1, GroupFair
  <2> QED
    BY <1>10, <2>6 DEF res
<1>15. ASSUME NEW t \in Nat, NEW h \in Nat, ~ (t = s /\ h = g)
       PROVE  Fair(ScoredIn(new, t, h), ResultsIn(new, t, h))
  <2>1. ScoredIn(new, t, h) = ScoredIn(stats, t, h)
    BY <1>7, <1>15 DEF ScoredIn
  <2>2. ResultsIn(new, t, h) = ResultsIn(stats, t, h)
    BY <1>7, <2>1 DEF ResultsIn, ScoredIn
  <2> QED
    BY <2>1, <2>2 DEF FairStats
<1>16. FairStats(new)
  BY <1>14, <1>15 DEF FairStats
<1>17. Behind(new, s, g, n)
  <2>1. Cardinality(gone \cup group) = Cardinality(gone) + Cardinality(group)
    <3> HIDE DEF gone
    <3>1. Cardinality(gone \cup group)
            = Cardinality(gone) + Cardinality(group) - Cardinality(gone \cap group)
      BY <1>1, <1>9, FS_Union
    <3>2. Cardinality(gone \cap group) = 0
      BY <1>8, FS_EmptySet
    <3> QED
      BY <1>1, <1>9, <3>1, <3>2
  <2>2. Cardinality(gone) + (Cardinality(group) + n) = RobotsPerGame
    BY DEF Behind
  <2>3. ASSUME NEW r \in gone \cup group
        PROVE  ResultIn(new[r], s, g).position > n
    <3>1. CASE r \in gone
      <4>1. ResultIn(new[r], s, g) = old[r]
        BY <1>7, <3>1 DEF ScoredIn, ResultsIn
      <4> QED
        BY <1>1, <1>13, <3>1, <4>1
    <3>2. CASE r \in group
      <4>1. ResultIn(new[r], s, g) = x
        BY <1>7, <3>2
      <4> QED
        BY <1>3, <4>1
    <3> QED
      BY <3>1, <3>2
  <2> HIDE DEF gone
  <2>4. Cardinality(gone \cup group) + n = RobotsPerGame
    BY <1>1, <1>9, <2>1, <2>2
  <2> QED
    BY <1>10, <2>3, <2>4 DEF Behind
<1> QED
  BY <1>16, <1>17 DEF new, x

\* The points in the lists l, seen from game g of sequence s.
FairLists(l, s, g) ==
    /\ FairStats(l.stats)
    /\ l.on # {} => Behind(l.stats, s, g, Cardinality(l.on))

\* A sequence has as many robots as a game.
TeamComplete ==
    state \notin {"NOT_STARTED", "FINISHED"}
      => Cardinality(all_robots_in_sequence) = RobotsPerGame

PointsKept == FairLists(Current(0), sequence_nr, game_nr)

PointsInv == ResultsInv /\ TeamComplete /\ PointsKept

\* end_game is fair to those who are left.
LEMMA FinishFair ==
    ASSUME NEW l, Agree(l), Counted(l), NEW s \in Nat, NEW g \in Nat,
           Ordered(l, s, g), FairLists(l, s, g)
    PROVE  FairStats(Finish(l, s, g).stats)
<1>1. l.stats \in [Robots -> Seq(Stat)] /\ l.on \in SUBSET Robots
  BY DEF Agree, Lists
<1>2. Finish(l, s, g).stats
        = SetStats(l.stats, l.on, StatOf(s, g, 0, Cardinality(l.on), TRUE))
  BY FinishScoresAll
<1>3. CASE l.on = {}
  BY <1>1, <1>2, <1>3, NobodyScored DEF FairLists
<1>4. CASE l.on # {}
  <2>1. Cardinality(l.on) \in Nat /\ 0 \in Nat /\ TRUE \in BOOLEAN
    BY <1>1, RobotSetsFinite
  <2>2. Cardinality(l.on) + 0 = Cardinality(l.on)
    BY <2>1
  <2>3. /\ \A r \in Robots : InOrder(l.stats[r]) /\ NoneAfter(l.stats[r], s, g)
        /\ \A r \in l.on : AllBefore(l.stats[r], s, g)
    BY <1>1 DEF Ordered
  <2>4. FairStats(l.stats) /\ Behind(l.stats, s, g, Cardinality(l.on) + 0)
    BY <1>4, <2>2 DEF FairLists
  <2> QED
    BY <1>1, <1>2, <1>4, <2>1, <2>3, <2>4, GroupScored
<1> QED
  BY <1>3, <1>4

\* update_robots is fair to those who die in the same tick.
LEMMA UpdateFair ==
    ASSUME PointsInv, state = "GAME_IN_PROGRESS", NEW now \in Nat,
           NEW dying \in SUBSET (alive \cap on_arena)
    PROVE  FairLists(Update(dying, now), sequence_nr, game_nr)
<1>1. /\ TypeOK /\ RobotsAccounted /\ ResultsInOrder
      /\ sequence_nr \in Nat /\ game_nr \in Nat
      /\ statistics \in [Robots -> Seq(Stat)] /\ on_arena \in SUBSET Robots
  BY DEF PointsInv, ResultsInv, ArenaInv, TypeOK
<1>2. PICK group \in SUBSET on_arena : Leaves(group, Update(dying, now))
  BY <1>1, UpdateScores
<1> DEFINE stay == on_arena \ group
<1>3. /\ Update(dying, now).on = stay
      /\ Update(dying, now).stats
           = SetStats(statistics, group, StatOf(sequence_nr, game_nr, Cardinality(stay),
                                                Cardinality(group), FALSE))
  BY <1>2 DEF Leaves
<1>4. /\ FairStats(statistics)
      /\ on_arena # {} => Behind(statistics, sequence_nr, game_nr, Cardinality(on_arena))
  BY DEF PointsInv, PointsKept, FairLists, Current
<1>5. CASE group = {}
  <2>1. Update(dying, now).stats = statistics /\ stay = on_arena
    BY <1>1, <1>3, <1>5, NobodyScored
  <2> QED
    BY <1>3, <1>4, <2>1 DEF FairLists
<1>6. CASE group # {}
  <2>1. /\ stay \in SUBSET Robots /\ group \in SUBSET Robots
        /\ IsFiniteSet(on_arena) /\ Cardinality(on_arena) \in Nat
        /\ Cardinality(stay) \in Nat /\ Cardinality(group) \in Nat
    BY <1>1, RobotSetsFinite
  <2>2. Cardinality(on_arena) = Cardinality(group) + Cardinality(stay)
    <3>1. on_arena \cap group = group
      OBVIOUS
    <3>2. Cardinality(stay) = Cardinality(on_arena) - Cardinality(on_arena \cap group)
      BY <2>1, FS_Difference
    <3>3. Cardinality(stay) = Cardinality(on_arena) - Cardinality(group)
      BY <3>1, <3>2
    <3> HIDE DEF stay
    <3> QED
      BY <2>1, <3>3
  <2>3. Behind(statistics, sequence_nr, game_nr, Cardinality(group) + Cardinality(stay))
    BY <1>4, <1>6, <2>2
  <2>4. /\ \A r \in Robots : /\ InOrder(statistics[r])
                             /\ NoneAfter(statistics[r], sequence_nr, game_nr)
        /\ \A r \in group : AllBefore(statistics[r], sequence_nr, game_nr)
    BY <1>1 DEF ResultsInOrder
  <2>5. FALSE \in BOOLEAN
    OBVIOUS
  <2> HIDE DEF stay
  <2>6. /\ FairStats(Update(dying, now).stats)
        /\ Behind(Update(dying, now).stats, sequence_nr, game_nr, Cardinality(stay))
    <3> DEFINE n == Cardinality(stay)
               new == SetStats(statistics, group,
                               StatOf(sequence_nr, game_nr, n, Cardinality(group), FALSE))
    <3>1. n \in Nat /\ Behind(statistics, sequence_nr, game_nr, Cardinality(group) + n)
      BY <2>1, <2>3
    <3> HIDE DEF n
    <3>2. FairStats(new) /\ Behind(new, sequence_nr, game_nr, n)
      BY <1>1, <1>4, <1>6, <2>1, <2>4, <2>5, <3>1, GroupScored
    <3> QED
      BY <1>3, <3>2 DEF n
  <2> QED
    BY <1>3, <2>6 DEF FairLists
<1> QED
  BY <1>5, <1>6

\* A game that begins has no results yet, and all of its robots are on the arena.
LEMMA StartGameFair ==
    ASSUME TypeOK, ~ PlacementMayFail, NEW l, Empty(l), StartGame(l), FairStats(l.stats),
           Ordered(l, sequence_nr, game_nr), sequence_nr' = sequence_nr,
           Cardinality(all_robots_in_sequence) = RobotsPerGame
    PROVE  PointsKept'
<1>1. /\ l.stats \in [Robots -> Seq(Stat)] /\ statistics' = l.stats
      /\ sequence_nr \in Nat /\ game_nr \in Nat
  BY StartGamePlays DEF Empty, Lists, TypeOK
<1>2. CASE on_arena' = {}
  BY <1>1, <1>2 DEF PointsKept, FairLists, Current
<1>3. CASE on_arena' = all_robots_in_sequence /\ game_nr' = game_nr + 1
  <2>1. game_nr + 1 \in Nat /\ Before(sequence_nr, game_nr, sequence_nr, game_nr + 1)
    BY <1>1 DEF Before
  <2>2. \A r \in Robots : AllBefore(l.stats[r], sequence_nr, game_nr + 1)
    BY <1>1, <2>1, LaterGame DEF Ordered
  <2>3. ScoredIn(l.stats, sequence_nr, game_nr + 1) = {}
    BY <1>1, <2>1, <2>2, BeforeHasNone DEF ScoredIn
  <2>4. 0 + RobotsPerGame = RobotsPerGame
    BY SizeAssumption
  <2>5. Behind(l.stats, sequence_nr, game_nr + 1, RobotsPerGame)
    BY <2>3, <2>4, FS_EmptySet DEF Behind
  <2> QED
    BY <1>1, <1>3, <2>5 DEF PointsKept, FairLists, Current
<1> QED
  BY <1>2, <1>3, StartGamePlays

\* end_game, and the game after it.
LEMMA EndGameFair ==
    ASSUME TypeOK, ~ PlacementMayFail, NEW l, Agree(l), Counted(l), EndGame(l),
           FairLists(l, sequence_nr, game_nr), Ordered(l, sequence_nr, game_nr),
           Cardinality(all_robots_in_sequence) = RobotsPerGame
    PROVE  PointsKept'
<1> DEFINE f == Finish(l, sequence_nr, game_nr)
<1>1. sequence_nr \in Nat /\ game_nr \in Nat /\ sequence_nr' = sequence_nr
  BY DEF TypeOK, EndGame
<1>2. Empty(f) /\ Ordered(f, sequence_nr, game_nr) /\ FairStats(f.stats)
  BY <1>1, FinishEmpties, FinishOrdered, FinishFair
<1>3. EndSequence(f) \/ StartGame(f)
  BY DEF EndGame
<1> HIDE DEF f
<1>4. CASE EndSequence(f)
  BY <1>2, <1>4 DEF EndSequence, Become, Empty, PointsKept, FairLists, Current
<1>5. CASE StartGame(f)
  BY <1>1, <1>2, <1>5, StartGameFair
<1> QED
  BY <1>3, <1>4, <1>5

\* The results are left alone, and so is the game, unless the arena is cleared.
LEMMA QuietPoints ==
    ASSUME PointsKept, statistics' = statistics,
           on_arena' = {} \/ UNCHANGED <<on_arena, sequence_nr, game_nr>>
    PROVE  PointsKept'
BY DEF PointsKept, FairLists, Current

\* A new tournament has no results to be fair about.
LEMMA StartTournamentFair ==
    ASSUME StartTournament
    PROVE  PointsKept'
<1>1. \A r \in Robots : statistics'[r] = <<>>
  BY DEF StartTournament
<1>2. \A s, g : ScoredIn(statistics, s, g)' = {}
  BY <1>1 DEF ScoredIn, HasResult
<1>3. FairStats(statistics)'
  BY <1>2 DEF FairStats, Fair
<1> QED
  BY <1>3 DEF StartTournament, PointsKept, FairLists, Current

\* Every sequence is started with the robots of one game.
LEMMA TeamStep ==
    ASSUME TypeOK, TeamComplete, [Next]_vars
    PROVE  TeamComplete'
<1>1. ASSUME NEW nr, StartSequence({}, nr)
      PROVE  Cardinality(all_robots_in_sequence') = RobotsPerGame
  <2>1. PICK s \in Lineups : all_robots_in_sequence' = {} \cup s
    BY <1>1 DEF StartSequence
  <2>2. all_robots_in_sequence' = s
    BY <2>1
  <2> QED
    BY <2>2 DEF Lineups
<1>2. CASE TickNotStarted \/ ClickNewTournament
  BY <1>1, <1>2 DEF TickNotStarted, ClickNewTournament, StartTournament, TeamComplete
<1>3. CASE TickSequenceOver
  BY <1>1, <1>3 DEF TickSequenceOver, TeamComplete
<1>4. CASE ClickEndTournament
  BY <1>4 DEF ClickEndTournament, TeamComplete
<1>5. CASE UNCHANGED vars \/ TickFinished \/ TickStarting \/ TickShuttingDown
             \/ TickImpossible \/ ClickStep \/ ClickKillRobot \/ ClickPause
  BY <1>5 DEF vars, TickFinished, TickStarting, TickShuttingDown, TickImpossible, ClickStep,
              ClickKillRobot, ClickPause, robotLists, TeamComplete
<1>6. CASE TickFollowUp \/ TickFollowUpFails \/ TickGame \/ TickPausing
  <2>1. all_robots_in_sequence' = all_robots_in_sequence
    BY <1>6 DEF TickFollowUp, TickFollowUpFails, TickGame, TickPausing
  <2>2. state \notin {"NOT_STARTED", "FINISHED"}
    BY <1>6 DEF TickFollowUp, TickFollowUpFails, TickGame, TickPausing
  <2> QED
    BY <2>1, <2>2 DEF TeamComplete
<1>7. CASE TickGameOver \/ ClickEndGame
  <2>1. all_robots_in_sequence' = all_robots_in_sequence
    BY <1>7 DEF TickGameOver, ClickEndGame, EndGame
  <2>2. state \notin {"NOT_STARTED", "FINISHED"}
    BY <1>7 DEF TickGameOver, ClickEndGame
  <2> QED
    BY <2>1, <2>2 DEF TeamComplete
<1> QED
  BY <1>2, <1>3, <1>4, <1>5, <1>6, <1>7 DEF Next, Tick, Button

\* Nobody has points in the beginning.
LEMMA PointsInvInit == Init => PointsInv
<1> SUFFICES ASSUME Init PROVE PointsInv
  OBVIOUS
<1>1. \A r \in Robots : statistics[r] = <<>>
  BY DEF Init
<1>2. \A s, g : ScoredIn(statistics, s, g) = {}
  BY <1>1 DEF ScoredIn, HasResult
<1>3. FairStats(statistics)
  BY <1>2 DEF FairStats, Fair
<1> QED
  BY <1>3, ResultsInvInit DEF PointsInv, PointsKept, FairLists, Current, TeamComplete, Init

\* Every callback keeps the points fair.
LEMMA PointsInvStep ==
    ASSUME ~ PlacementMayFail, PointsInv, [Next]_vars
    PROVE  PointsInv'
<1>0. /\ ResultsInv /\ TeamComplete /\ PointsKept /\ TypeOK /\ RobotsAccounted
      /\ ResultsInOrder /\ state # "BEFORE_GAME_START"
  BY DEF PointsInv, ResultsInv, ArenaInv, SetUpFails
<1>1. ResultsInv' /\ TeamComplete'
  BY <1>0, ResultsInvStep, TeamStep DEF Disciplined
<1>2. sequence_nr \in Nat /\ game_nr \in Nat /\ total_time \in Nat
  BY <1>0 DEF TypeOK
<1>3. SUFFICES PointsKept'
  BY <1>1 DEF PointsInv
<1>c. ASSUME state # "FINISHED", NEW now \in Nat
      PROVE  /\ Agree(Current(now)) /\ Counted(Current(now))
             /\ Ordered(Current(now), sequence_nr, game_nr)
             /\ FairLists(Current(now), sequence_nr, game_nr)
             /\ ~ Playing => Empty(Current(now))
  <2>1. Agree(Current(now)) /\ Ordered(Current(now), sequence_nr, game_nr)
    BY <1>0, <1>c, CurrentAgrees, CurrentOrdered
  <2>2. Counted(Current(now))
    BY <1>0 DEF Counted, Current, RobotsAccounted
  <2>3. FairLists(Current(now), sequence_nr, game_nr)
    BY <1>0 DEF PointsKept, FairLists, Current
  <2>4. ~ Playing => Empty(Current(now))
    BY <1>0, <1>c, <2>1 DEF RobotsAccounted, Agree, Empty, Current
  <2> QED
    BY <2>1, <2>2, <2>3, <2>4
<1>4. CASE TickNotStarted \/ ClickNewTournament
  BY <1>4, StartTournamentFair DEF TickNotStarted, ClickNewTournament
<1>5. CASE UNCHANGED vars \/ TickFinished \/ TickStarting \/ TickShuttingDown
             \/ TickImpossible \/ ClickStep \/ ClickKillRobot \/ ClickPause
  <2>1. UNCHANGED <<statistics, on_arena, sequence_nr, game_nr>>
    BY <1>5 DEF vars, TickFinished, TickStarting, TickShuttingDown, TickImpossible, ClickStep,
                ClickKillRobot, ClickPause, robotLists, progress
  <2> QED
    BY <1>0, <2>1, QuietPoints
<1>6. CASE ClickEndTournament \/ TickSequenceOver
  <2>1. statistics' = statistics /\ on_arena' = {}
    BY <1>0, <1>6 DEF ClickEndTournament, TickSequenceOver, RobotsAccounted, Playing
  <2> QED
    BY <1>0, <2>1, QuietPoints
<1>7. CASE TickFollowUp \/ TickPausing
  <2>1. PICK now \in Nat : StartGame(Current(now))
    BY <1>0, <1>2, <1>7, ClockType DEF TickFollowUp, TickPausing, StartGame
  <2>2. /\ state # "FINISHED" /\ state # "NOT_STARTED" /\ ~ Playing
        /\ sequence_nr' = sequence_nr
    BY <1>7 DEF TickFollowUp, TickPausing, Playing
  <2>3. /\ Empty(Current(now)) /\ FairStats(Current(now).stats)
        /\ Ordered(Current(now), sequence_nr, game_nr)
    BY <1>c, <2>2 DEF FairLists
  <2>4. Cardinality(all_robots_in_sequence) = RobotsPerGame
    BY <1>0, <2>2 DEF TeamComplete
  <2> QED
    BY <1>0, <2>1, <2>2, <2>3, <2>4, StartGameFair
<1>8. CASE TickFollowUpFails
  <2>1. PICK now \in Nat : WindUp(Current(now))
    BY <1>0, <1>8, ClockType DEF TickFollowUpFails
  <2>2. state = "STARTING_ROBOTS" /\ game_nr = 0 /\ ~ Playing
    BY <1>0, <1>8 DEF TickFollowUpFails, ResultsInv, ArenaInv, GamesRemain, Playing
  <2> DEFINE l == Current(now)
             s == SequencesInTournament
             g == GamesPerSequence
  <2>3. /\ Agree(l) /\ Counted(l) /\ Ordered(l, sequence_nr, game_nr)
        /\ FairLists(l, sequence_nr, game_nr) /\ l.on = {}
    BY <1>c, <2>2 DEF Empty
  <2> HIDE DEF l
  <2>4. s \in Nat /\ g \in Nat /\ Before(sequence_nr, game_nr, s, g)
    BY <1>0, <2>2, SizeAssumption DEF Before, TypeOK
  <2>5. Ordered(l, s, g)
    <3>1. l.stats \in [Robots -> Seq(Stat)]
      BY <2>3 DEF Agree, Lists
    <3> HIDE DEF s, g
    <3> QED
      BY <1>2, <2>3, <2>4, <3>1, LaterGame DEF Ordered
  <2>6. FairLists(l, s, g)
    BY <2>3 DEF FairLists
  <2> HIDE DEF s, g
  <2>7. FairStats(Finish(l, s, g).stats)
    BY <2>3, <2>4, <2>5, <2>6, FinishFair
  <2>8. statistics' = Finish(l, s, g).stats /\ on_arena' = Finish(l, s, g).on
    BY <2>1 DEF WindUp, Become, l, s, g
  <2>9. Finish(l, s, g).on = {}
    BY DEF Finish
  <2> QED
    BY <2>7, <2>8, <2>9 DEF PointsKept, FairLists, Current
<1>9. CASE TickGame
  <2>1. PICK now \in Clock, dying \in SUBSET (alive \cap on_arena) :
           \/ \E stopped : Become(CheckRobots(Update(dying, now), stopped))
           \/ Become(Update(dying, now))
    BY <1>9 DEF TickGame
  <2>2. /\ now \in Nat /\ state = "GAME_IN_PROGRESS"
        /\ sequence_nr' = sequence_nr /\ game_nr' = game_nr
    BY <1>0, <1>9, ClockType DEF TickGame, progress
  <2>3. FairLists(Update(dying, now), sequence_nr, game_nr)
    BY <2>2, UpdateFair
  <2>4. statistics' = Update(dying, now).stats /\ on_arena' = Update(dying, now).on
    <3>1. Update(dying, now) \in Lists
      BY <1>0, <2>2, UpdateAgrees DEF Agree
    <3> QED
      BY <2>1, <3>1 DEF Become, CheckRobots, Lists
  <2> QED
    BY <2>2, <2>3, <2>4 DEF PointsKept, FairLists, Current
<1>10. CASE TickGameOver
  <2>1. PICK now \in Nat, dying \in SUBSET (alive \cap on_arena) : EndGame(Update(dying, now))
    BY <1>0, <1>10, ClockType DEF TickGameOver
  <2>2. state = "GAME_IN_PROGRESS" /\ Cardinality(all_robots_in_sequence) = RobotsPerGame
    BY <1>0, <1>10 DEF TickGameOver, TeamComplete
  <2>3. /\ Agree(Update(dying, now)) /\ Counted(Update(dying, now))
        /\ Ordered(Update(dying, now), sequence_nr, game_nr)
        /\ FairLists(Update(dying, now), sequence_nr, game_nr)
    BY <1>0, <2>2, UpdateAgrees, UpdateOrdered, UpdateFair DEF Counted, ResultsInv
  <2> QED
    BY <1>0, <2>1, <2>2, <2>3, EndGameFair
<1>11. CASE ClickEndGame
  <2>1. /\ EndGame(Current(total_time)) /\ state # "FINISHED"
        /\ Cardinality(all_robots_in_sequence) = RobotsPerGame
    BY <1>0, <1>11 DEF ClickEndGame, TeamComplete
  <2> QED
    BY <1>0, <1>2, <1>c, <2>1, EndGameFair
<1> QED
  BY <1>4, <1>5, <1>6, <1>7, <1>8, <1>9, <1>10, <1>11 DEF Next, Tick, Button

\* FairPoints asks for less than FairStats: only games that are over.
LEMMA FairStatsSuffice == FairStats(statistics) => FairPoints
<1> SUFFICES ASSUME FairStats(statistics),
                    NEW s \in 1 .. SequencesInTournament, NEW g \in 1 .. GamesPerSequence
             PROVE  LET result    == [r \in Scored(s, g) |-> ResultOf(r, s, g)]
                        outlived(r)  == {q \in Scored(s, g) :
                                           result[q].position > result[r].position}
                        tiedWith(r) == {q \in Scored(s, g) \ {r} :
                                           result[q].position = result[r].position}
                    IN  \A r \in Scored(s, g) :
                          result[r].points2 =
                            2 + 2 * Cardinality(outlived(r))
                              + (IF result[r].timeout THEN 0 ELSE Cardinality(tiedWith(r)))
  BY DEF FairPoints
<1>1. Scored(s, g) = ScoredIn(statistics, s, g)
  BY DEF Scored, ScoredIn, HasResult
<1>2. \A r \in Robots : ResultOf(r, s, g) = ResultIn(statistics[r], s, g)
  BY DEF ResultOf, ResultIn
<1>3. [r \in Scored(s, g) |-> ResultOf(r, s, g)] = ResultsIn(statistics, s, g)
  BY <1>1, <1>2 DEF ResultsIn, Scored
<1>4. Fair(Scored(s, g), [r \in Scored(s, g) |-> ResultOf(r, s, g)])
  <2>1. s \in Nat /\ g \in Nat
    BY SizeAssumption
  <2> QED
    BY <1>1, <1>3, <2>1 DEF FairStats
<1> QED
  BY <1>4, Zenon DEF Fair, Outlived, TiedWith

\* The scoring rule of the manual holds for every game that has been played, for
\* any number of robots and any order of dying: set_stats, which only knows how
\* many robots are left and how many died at once, gives every robot a point for
\* each robot it outlived.  It needs every robot to find a place: the robots that
\* a failed placement left out are missing from the count (update_robots,
\* end_game, set_stats).
THEOREM PointsFair ==
    ASSUME ~ PlacementMayFail
    PROVE  Spec => []FairPoints
<1>1. PointsInv /\ [Next]_vars => PointsInv'
  BY PointsInvStep
<1>2. PointsInv => FairPoints
  BY FairStatsSuffice DEF PointsInv, PointsKept, FairLists, Current
<1> QED
  BY <1>1, <1>2, PointsInvInit, PTL DEF Spec
=============================================================================
