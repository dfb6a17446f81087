-------------------------- MODULE TournamentParser --------------------------
(***************************************************************************)
(* The words of a tournament file and what parse_tournament_file makes of  *)
(* them.  A word is a pair of its kind and its meaning: a keyword, a       *)
(* number, an asterisk or the name of a file.                              *)
(***************************************************************************)
EXTENDS Integers, Sequences, Various

CONSTANTS
    RobotDir,         \* the robots found in the robot search path
    ArenaDir,         \* the arenas found in the arena search path
    FailedReadIsZero  \* operator>> of the library writes 0 when it fails

\* games_p_s, robots_p_s and n_o_sequences.
NumberKeywords == {"games", "robots", "sequences"}
ListKeywords   == {"list robots", "list arenas"}
Keywords       == NumberKeywords \cup ListKeywords

Keyword(k)  == <<"keyword", k>>
Number(n)   == <<"number", n>>
Asterisk    == <<"asterisk", "*">>
FileName(f) == <<"file", f>>

IsKeyword(w) == w[1] = "keyword"
IsNumberKeyword(w) == w[1] = "keyword" /\ w[2] \in NumberKeywords

Members(list) == {list[i] : i \in 1 .. Len(list)}

ASSUME ParserAssumption ==
    /\ FailedReadIsZero \in BOOLEAN
    /\ RobotDir \in Seq(Members(RobotDir))
    /\ ArenaDir \in Seq(Members(ArenaDir))

\* The variables before the first word.  `argument' is the keyword whose
\* argument is read next; looking_for is "keyword" or the list being read.
NewParser ==
    [number      |-> [k \in NumberKeywords |-> IF k = "robots" THEN 2 ELSE 1],
     argument    |-> "none",
     looking_for |-> "keyword",
     robot_list  |-> <<>>,
     arena_list  |-> <<>>]

\* The number that replaces old when w is read as one: -1 stands for *.
ReadNumber(w, old) ==
    CASE w[1] = "asterisk" -> -1
      [] w[1] = "number"   -> w[2]
      [] OTHER             -> IF FailedReadIsZero THEN 0 ELSE old

\* check_for_robots_and_arenas: the files that a word stands for.
Found(w, dir) ==
    CASE w[1] = "asterisk"                      -> dir
      [] w[1] = "file" /\ w[2] \in Members(dir) -> <<w[2]>>
      [] OTHER                                  -> <<>>

\* Mutation of Read: a keyword is never taken for an argument.
ReadKeywordFirst(p, w) ==
    CASE IsNumberKeyword(w) -> [p EXCEPT !.argument = w[2], !.looking_for = "keyword"]
      [] IsKeyword(w) /\ ~ IsNumberKeyword(w) ->
           [p EXCEPT !.looking_for = w[2], !.argument = "none"]
      [] ~ IsKeyword(w) /\ p.argument # "none" ->
           [p EXCEPT !.number[p.argument] = ReadNumber(w, @), !.argument = "none"]
      [] OTHER -> p

\* The body of the loop, for the word w.
Read(p, w) ==
    CASE p.argument # "none" ->
           [p EXCEPT !.number[p.argument] = ReadNumber(w, @), !.argument = "none"]
      [] p.argument = "none" /\ IsNumberKeyword(w) ->
           [p EXCEPT !.argument = w[2], !.looking_for = "keyword"]
      [] p.argument = "none" /\ IsKeyword(w) /\ ~ IsNumberKeyword(w) ->
           [p EXCEPT !.looking_for = w[2]]
      [] p.argument = "none" /\ ~ IsKeyword(w) /\ p.looking_for = "list robots" ->
           [p EXCEPT !.robot_list = @ \o Found(w, RobotDir)]
      [] p.argument = "none" /\ ~ IsKeyword(w) /\ p.looking_for = "list arenas" ->
           [p EXCEPT !.arena_list = @ \o Found(w, ArenaDir)]
      [] OTHER -> p

-----------------------------------------------------------------------------
(***************************************************************************)
(* The end of the file.                                                    *)
(***************************************************************************)
Resolved(n, asterisk) == IF n = -1 THEN asterisk ELSE n

\* The tournament that has been asked for.
Settled(p) ==
    LET games  == Resolved(p.number["games"], Len(p.arena_list))
        robots == Resolved(p.number["robots"], Len(p.robot_list))
    IN  [robot_list |-> p.robot_list,
         arena_list |-> p.arena_list,
         games      |-> games,
         robots     |-> IF Len(p.robot_list) < robots THEN Len(p.robot_list) ELSE robots,
         sequences  |-> Resolved(p.number["sequences"],
                                 binomial(Len(p.robot_list), games))]

\* Is it one that the program starts?
Acceptable(t) == t.robots >= 2 /\ t.games >= 1 /\ t.sequences >= 1

\* What parse_tournament_file does at the end of the file: it calls the function
\* it was given, or reports an error.
Outcome(p) ==
    IF Acceptable(Settled(p))
    THEN [how |-> "started", tournament |-> Settled(p)]
    ELSE [how |-> "rejected"]
=============================================================================
