---------------------- MODULE MCStartTournamentWindow ----------------------
(***************************************************************************)
(* StartTournamentWindow with two robots and an arena.  Instead of opening *)
(* the window, a behaviour may also start with a tournament file that was  *)
(* written by hand (option --tournament_file): then it is the reading of   *)
(* that file, as in TournamentFile.                                        *)
(***************************************************************************)
EXTENDS StartTournamentWindow

CONSTANTS r1, r2, a1, a2, OtherFiles, MaxWords

TwoRobots == <<r1, r2>>
OneArena  == <<a1>>

\* -1 is how the program writes an asterisk.
Numbers == {-1, 0, 3}

VARIABLES file, parser, result

F == INSTANCE TournamentFile

WindowOrFileInit == Init /\ F!Init

\* The window is used, or the file is read, never both.
WindowOrFile ==
    \/ file = <<>> /\ Next /\ UNCHANGED <<file, parser, result>>
    \/ clicks = 0 /\ F!Next /\ UNCHANGED vars

WindowOrFileSpec == WindowOrFileInit /\ [][WindowOrFile]_<<vars, file, parser, result>>

\* A hand-written tournament file means what is written in it, and what is started
\* from it can be played: the parser, which sees one word at a time, agrees with a
\* definition that sees the whole file (parse_tournament_file).
FileAsWritten == F!FileAsWritten
=============================================================================
