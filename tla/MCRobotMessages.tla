-------------------------- MODULE MCRobotMessages --------------------------
(***************************************************************************)
(* Three robots, two of them in a sequence, one team, and lines of every   *)
(* kind: legal at the start, in a game or always, with or without numbers. *)
(***************************************************************************)
EXTENDS RobotMessages

MCLineups == {{1, 2}, {2, 3}}

MCLines ==
    {<<"Name", "a">>, <<"Name", "T">>, <<"Colour", "red", "blue">>, <<"RobotOption", "3", "0">>,
     <<"Accelerate", "1">>, <<"Print", "a">>}

MCValueOf == [w \in {"0", "1", "3"} |-> CASE w = "0" -> 0 [] w = "1" -> 1 [] w = "3" -> 3]

MCTeamOf(name) == IF name = <<"T">> THEN "t" ELSE ""
=============================================================================
