---------------------------- MODULE MCArenaFile ----------------------------
(***************************************************************************)
(* An instance of ArenaFile for TLC: one or more lines for every command,  *)
(* and lines that are cut in two, out of place or wrong.                   *)
(***************************************************************************)
EXTENDS ArenaFile

Settings ==
    {<<"scale", "2">>, <<"angle_unit", "degrees">>, <<"boundary", "0", "0", "4", "4">>,
     <<"exclusion_point", "1", "2">>}

Walls ==
    {<<"inner_circle", "1", "1", "2", "2", "2">>, <<"circle", "1", "1", "2", "3", "1">>,
     <<"arc", "1", "1", "2", "2", "1", "2", "0", "1">>,
     <<"line", "1", "1", "1", "0", "0", "0", "3">>,
     <<"polygon", "1", "1", "1", "3", "0", "0", "0", "2", "2", "2">>,
     <<"closed_polygon", "1", "1", "1", "3", "0", "0", "0", "2", "2", "2">>,
     <<"poly_curve", "1", "1", "1", "0", "0", "1", "0", "L", "2", "T", "1", "A", "1", "2", "C">>,
     <<"poly_curve", "1", "1", "1", "0", "0", "1", "0", "T", "1", "L", "2", "Q">>}

Wrong ==
    {<<"angle_unit", "turns">>, <<"boundary", "4", "0", "0", "4">>,
     <<"circle", "1", "1", "2">>, <<"3", "1">>,
     <<"line", "1", "1", "1", "0", "0", "0", "0">>,
     <<"polygon", "1", "1", "1", "2", "0", "1">>,
     <<"poly_curve", "1", "1", "1", "0", "0", "1", "0", "L", "2">>, <<"Q">>}

MCLines == Settings \cup Walls \cup Wrong
=============================================================================
